---------------------------- MODULE Spec2Model ----------------------------
(***************************************************************************)
(* The ray tracer of task3 (fragmentShaderSource in src/task3/task3.cpp):  *)
(* the three intersection functions and the trace loop of the shader's     *)
(* main, as a state machine over the loop's iterations.                    *)
(*                                                                         *)
(* Numbers.  A GLSL float is modelled as a fixed-point number: the integer *)
(* n stands for n / Q, so 1.0 is Q and EPSILON (0.001) is Q \div 1000.     *)
(* Products, quotients and square roots are rounded to that resolution,    *)
(* as float arithmetic rounds to its own.  A division by zero gives an     *)
(* infinity and 0 * infinity gives NaN, as IEEE arithmetic does; what      *)
(* min and max return for a NaN operand is left open by GLSL and is a      *)
(* choice of the platform (nanRule).                                       *)
(***************************************************************************)
EXTENDS Integers, Sequences, FiniteSets, TLC

\* The fixed-point unit: the integer Q stands for the float 1.0.
Q == 10000

\* const float EPSILON = 0.001;
EPSILON == Q \div 1000

\* MAX_BOUNCES as a loop bound that is one too large.
FourBounces == 3 + 1

\* const int MAX_BOUNCES = 3;
MAX_BOUNCES == 3

\* The "no hit" value -1.0 the three intersection functions return.
NoHit == -Q

\* IEEE infinity and NaN (1.0 / 0.0 and 0.0 * infinity).
Inf == 100000 * Q
NaN == Inf + Inf + 1

Abs(x) == IF x < 0 THEN -x ELSE x

\* x * y of two floats, rounded to the nearest 1/Q.  The operand of larger
\* magnitude is split at Q so that no intermediate product leaves 32 bits.
FMul(x, y) ==
  LET s == IF Abs(x) <= Abs(y) THEN x ELSE y
      l == IF Abs(x) <= Abs(y) THEN y ELSE x
      lh == l \div Q
      ll == l % Q
  IN  s * lh + ((s * ll + Q \div 2) \div Q)

\* x / y of two floats (y # 0), rounded to the nearest 1/Q.
FDiv(x, y) ==
  IF y > 0 THEN (x * Q + y \div 2) \div y
           ELSE ((-x) * Q + (-y) \div 2) \div (-y)

\* One step of the long-hand square root: from the root s and remainder r
\* of n (as <<s, r>>) to those of 100 * n + p, for a pair of digits p.
SqrtStep(sr, p) ==
  LET s == sr[1]
      r == 100 * sr[2] + p
      d == CHOOSE k \in 0..9 :
             /\ (20 * s + k) * k <= r
             /\ \A j \in (k + 1)..9 : (20 * s + j) * j > r
  IN  <<10 * s + d, r - (20 * s + d) * d>>

\* The pair of decimal digits of n at 100^k.
Pair(n, k) == (n \div (100 ^ k)) % 100

\* sqrt(x) of a float x >= 0 (x < 100^5), rounded down: the integer square
\* root of x * Q, digit by digit over the five pairs of digits of x and the
\* two of Q.
FSqrt(x) ==
  SqrtStep(SqrtStep(SqrtStep(SqrtStep(SqrtStep(SqrtStep(SqrtStep(
    <<0, 0>>, Pair(x, 4)), Pair(x, 3)), Pair(x, 2)), Pair(x, 1)), Pair(x, 0)),
    0), 0)[1]

\* floor(x), sign(x), and mod(x, 2.0) for a whole number x.
Floor(x) == (x \div Q) * Q
Sign(x) == IF x > 0 THEN Q ELSE IF x < 0 THEN -Q ELSE 0
Mod2(x) == ((x \div Q) % 2) * Q

\* vec3 and its operations.
Vec3(x, y, z) == [x |-> x, y |-> y, z |-> z]
VAdd(u, v) == Vec3(u.x + v.x, u.y + v.y, u.z + v.z)
VSub(u, v) == Vec3(u.x - v.x, u.y - v.y, u.z - v.z)
VScale(v, s) == Vec3(FMul(v.x, s), FMul(v.y, s), FMul(v.z, s))
VMul(u, v) == Vec3(FMul(u.x, v.x), FMul(u.y, v.y), FMul(u.z, v.z))
Dot(u, v) == FMul(u.x, v.x) + FMul(u.y, v.y) + FMul(u.z, v.z)
Length(v) == FSqrt(Dot(v, v))
VDiv(v, s) == Vec3(FDiv(v.x, s), FDiv(v.y, s), FDiv(v.z, s))
Normalize(v) == VDiv(v, Length(v))

\* float a = dot(rd, rd);
SphereA(rd) == Dot(rd, rd)

\* vec3 oc = ro - sc;  float b = 2.0 * dot(oc, rd);
SphereB(ro, rd, sc) == 2 * Dot(VSub(ro, sc), rd)

\* float c = dot(oc, oc) - sr*sr;
SphereC(ro, sc, sr) == Dot(VSub(ro, sc), VSub(ro, sc)) - FMul(sr, sr)

\* The discriminant with the sign of 4ac slipped.
DiscriminantSignSlip(a, b, c) == FMul(b, b) + FMul(4 * a, c)

\* float discriminant = b*b - 4.0*a*c;
Discriminant(a, b, c) == FMul(b, b) - FMul(4 * a, c)

SphereDiscriminant(ro, rd, sc, sr) ==
  Discriminant(SphereA(rd), SphereB(ro, rd, sc), SphereC(ro, sc, sr))

\* t1 computed with the sign of t2's square root.
SphereT1FarRoot(ro, rd, sc, sr) ==
  FDiv(-SphereB(ro, rd, sc) + FSqrt(SphereDiscriminant(ro, rd, sc, sr)),
       2 * SphereA(rd))

\* float t1 = (-b - sqrt(discriminant)) / (2.0*a);
SphereT1(ro, rd, sc, sr) ==
  FDiv(-SphereB(ro, rd, sc) - FSqrt(SphereDiscriminant(ro, rd, sc, sr)),
       2 * SphereA(rd))

\* t2 computed with the sign of t1's square root: both roots are the entry.
SphereT2NearRoot(ro, rd, sc, sr) ==
  FDiv(-SphereB(ro, rd, sc) - FSqrt(SphereDiscriminant(ro, rd, sc, sr)),
       2 * SphereA(rd))

\* float t2 = (-b + sqrt(discriminant)) / (2.0*a);
SphereT2(ro, rd, sc, sr) ==
  FDiv(-SphereB(ro, rd, sc) + FSqrt(SphereDiscriminant(ro, rd, sc, sr)),
       2 * SphereA(rd))

\* A root selection that reports the entry root only, as the box test does.
SelectRootEntryOnly(t1, t2) ==
  IF t1 > EPSILON THEN t1 ELSE NoHit

\* A root selection with the comparison of the two roots reversed.
SelectRootReversed(t1, t2) ==
  IF t1 > EPSILON /\ (t1 > t2 \/ t2 < EPSILON) THEN t1
  ELSE IF t2 > EPSILON THEN t2
  ELSE NoHit

\* The root intersectSphere returns when the discriminant is not negative.
SelectRoot(t1, t2) ==
  IF t1 > EPSILON /\ (t1 < t2 \/ t2 < EPSILON) THEN t1
  ELSE IF t2 > EPSILON THEN t2
  ELSE NoHit

\* A sphere test that rejects a zero discriminant too.
intersectSphereNoTangent(ro, rd, sc, sr) ==
  IF SphereDiscriminant(ro, rd, sc, sr) <= 0
  THEN NoHit
  ELSE SelectRoot(SphereT1(ro, rd, sc, sr), SphereT2(ro, rd, sc, sr))

\* float intersectSphere(vec3 ro, vec3 rd, vec3 sc, float sr)
intersectSphere(ro, rd, sc, sr) ==
  IF SphereDiscriminant(ro, rd, sc, sr) < 0
  THEN NoHit
  ELSE SelectRoot(SphereT1(ro, rd, sc, sr), SphereT2(ro, rd, sc, sr))

\* Comparison of floats: false when an operand is NaN.
Lt(x, y) == x # NaN /\ y # NaN /\ x < y

\* min(x, y) and max(x, y).  GLSL defines min as "y if y < x, otherwise x"
\* and max as "y if x < y, otherwise x" and leaves the result open when an
\* operand is NaN: a platform either follows the formula ("formula") or
\* returns the operand that is a number ("number").
FMin(x, y, rule) ==
  IF (x = NaN \/ y = NaN) /\ rule = "number"
  THEN (IF x = NaN THEN y ELSE x)
  ELSE (IF Lt(y, x) THEN y ELSE x)

FMax(x, y, rule) ==
  IF (x = NaN \/ y = NaN) /\ rule = "number"
  THEN (IF x = NaN THEN y ELSE x)
  ELSE (IF Lt(x, y) THEN y ELSE x)

\* One component of invDir = 1.0 / rd.
InvDir(d) == IF d = 0 THEN Inf ELSE FDiv(Q, d)

\* One component of (bound - ro) * invDir.
SlabT(diff, inv) ==
  IF inv = Inf
  THEN (IF diff > 0 THEN Inf ELSE IF diff < 0 THEN -Inf ELSE NaN)
  ELSE FMul(diff, inv)

\* float tNear = max(max(t1.x, t1.y), t1.z);
AABBNear(ro, rd, bmin, bmax, rule) ==
  LET t1x == FMin(SlabT(bmin.x - ro.x, InvDir(rd.x)),
                  SlabT(bmax.x - ro.x, InvDir(rd.x)), rule)
      t1y == FMin(SlabT(bmin.y - ro.y, InvDir(rd.y)),
                  SlabT(bmax.y - ro.y, InvDir(rd.y)), rule)
      t1z == FMin(SlabT(bmin.z - ro.z, InvDir(rd.z)),
                  SlabT(bmax.z - ro.z, InvDir(rd.z)), rule)
  IN  FMax(FMax(t1x, t1y, rule), t1z, rule)

\* float tFar = min(min(t2.x, t2.y), t2.z);
AABBFar(ro, rd, bmin, bmax, rule) ==
  LET t2x == FMax(SlabT(bmin.x - ro.x, InvDir(rd.x)),
                  SlabT(bmax.x - ro.x, InvDir(rd.x)), rule)
      t2y == FMax(SlabT(bmin.y - ro.y, InvDir(rd.y)),
                  SlabT(bmax.y - ro.y, InvDir(rd.y)), rule)
      t2z == FMax(SlabT(bmin.z - ro.z, InvDir(rd.z)),
                  SlabT(bmax.z - ro.z, InvDir(rd.z)), rule)
  IN  FMin(FMin(t2x, t2y, rule), t2z, rule)

\* The value of outHitNormal where intersectAABB does not write it.
Unwritten == Vec3(0, 0, 0)

\* A normal chosen by three separate tests for the strictly largest
\* absolute coordinate: no normal is left when two of them are equal.
FaceNormalStrict(local_hit_point) ==
  IF Abs(local_hit_point.x) > Abs(local_hit_point.y)
     /\ Abs(local_hit_point.x) > Abs(local_hit_point.z)
  THEN Vec3(Sign(local_hit_point.x), 0, 0)
  ELSE IF Abs(local_hit_point.y) > Abs(local_hit_point.x)
          /\ Abs(local_hit_point.y) > Abs(local_hit_point.z)
  THEN Vec3(0, Sign(local_hit_point.y), 0)
  ELSE IF Abs(local_hit_point.z) > Abs(local_hit_point.x)
          /\ Abs(local_hit_point.z) > Abs(local_hit_point.y)
  THEN Vec3(0, 0, Sign(local_hit_point.z))
  ELSE Vec3(0, 0, 0)

\* outHitNormal, from the hit point relative to the box's centre: the axis
\* of the largest absolute coordinate, with that coordinate's sign.
FaceNormal(local_hit_point) ==
  IF Abs(local_hit_point.x) > Abs(local_hit_point.y)
     /\ Abs(local_hit_point.x) > Abs(local_hit_point.z)
  THEN Vec3(Sign(local_hit_point.x), 0, 0)
  ELSE IF Abs(local_hit_point.y) > Abs(local_hit_point.z)
  THEN Vec3(0, Sign(local_hit_point.y), 0)
  ELSE Vec3(0, 0, Sign(local_hit_point.z))

\* vec3 local_hit_point = hitPoint - box_center; at distance tNear.
LocalHitPoint(ro, rd, bmin, bmax, tNear) ==
  VSub(VAdd(ro, VScale(rd, tNear)), VScale(VAdd(bmin, bmax), Q \div 2))

\* A box test that reports the exit distance tFar for an origin inside the
\* box, as the sphere test does.
AABBResultWithExit(ro, rd, bmin, bmax, tNear, tFar) ==
  IF Lt(tNear, tFar) /\ Lt(EPSILON, tFar)
  THEN [t |-> IF Lt(EPSILON, tNear) THEN tNear ELSE tFar,
        n |-> FaceNormal(LocalHitPoint(ro, rd, bmin, bmax,
                                       IF Lt(EPSILON, tNear) THEN tNear ELSE tFar))]
  ELSE [t |-> NoHit, n |-> Unwritten]

\* A box test without the comparison of tNear with tFar.
AABBResultNoOverlapTest(ro, rd, bmin, bmax, tNear, tFar) ==
  IF Lt(EPSILON, tFar) /\ Lt(EPSILON, tNear)
  THEN [t |-> tNear, n |-> FaceNormal(LocalHitPoint(ro, rd, bmin, bmax, tNear))]
  ELSE [t |-> NoHit, n |-> Unwritten]

\* The two tests of intersectAABB on tNear and tFar, and what it returns
\* (t) and writes to outHitNormal (n).
AABBResult(ro, rd, bmin, bmax, tNear, tFar) ==
  IF Lt(tNear, tFar) /\ Lt(EPSILON, tFar) /\ Lt(EPSILON, tNear)
  THEN [t |-> tNear, n |-> FaceNormal(LocalHitPoint(ro, rd, bmin, bmax, tNear))]
  ELSE [t |-> NoHit, n |-> Unwritten]

\* float intersectAABB(vec3 ro, vec3 rd, vec3 bmin, vec3 bmax,
\*                     out vec3 outHitNormal)
intersectAABB(ro, rd, bmin, bmax, rule) ==
  AABBResult(ro, rd, bmin, bmax,
             AABBNear(ro, rd, bmin, bmax, rule),
             AABBFar(ro, rd, bmin, bmax, rule))

\* float t = (pd - dot(ro, pn)) / denom;  if (t > EPSILON) return t;
PlaneT(t) == IF t > EPSILON THEN t ELSE NoHit

\* A plane test that rejects a zero denominator only.
PlaneResultNonZero(ro, pn, pd, denom) ==
  IF denom # 0
  THEN PlaneT(FDiv(pd - Dot(ro, pn), denom))
  ELSE NoHit

\* A plane test with the numerator's sign slipped.
PlaneResultSignSlip(ro, pn, pd, denom) ==
  IF Abs(denom) > EPSILON
  THEN PlaneT(FDiv(Dot(ro, pn) - pd, denom))
  ELSE NoHit

\* The test on denom and what intersectPlane returns.
PlaneResult(ro, pn, pd, denom) ==
  IF Abs(denom) > EPSILON
  THEN PlaneT(FDiv(pd - Dot(ro, pn), denom))
  ELSE NoHit

\* float intersectPlane(vec3 ro, vec3 rd, vec3 pn, float pd)
intersectPlane(ro, rd, pn, pd) == PlaneResult(ro, pn, pd, Dot(rd, pn))

\* vec4: a colour (rgb) and an opacity (a).
Vec4(r, g, b, a) == [rgb |-> Vec3(r, g, b), a |-> a]

\* A point or vector given in tenths of a unit.
Tenths(x, y, z) == Vec3(x * (Q \div 10), y * (Q \div 10), z * (Q \div 10))

\* The uniforms the host program sets every frame.
ShippedScene ==
  [ sphereCenter     |-> Tenths(-8, 0, 0),
    sphereRadius     |-> 7 * (Q \div 10),
    sphereColorAlpha |-> Vec4(Q, 3 * (Q \div 10), 3 * (Q \div 10), Q \div 2),
    cubeMin          |-> Tenths(4, -6, -4),
    cubeMax          |-> Tenths(14, 6, 6),
    cubeColorAlpha   |-> Vec4(3 * (Q \div 10), 3 * (Q \div 10), Q,
                              65 * (Q \div 100)),
    planeNormal      |-> Vec3(0, 0, Q),
    planeD           |-> -2 * Q,
    checkerColor1    |-> Tenths(8, 8, 8),
    checkerColor2    |-> Tenths(3, 3, 3),
    checkerScale     |-> 15 * (Q \div 10) ]

\* glm::vec3 camPos = glm::vec3(0.0f, 0.5f, 4.0f);
ShippedCamera == Tenths(0, 5, 40)

\* The shader is a function of its uniforms.  Beside the shipped values:
\* a scene of opaque objects over a floor y = -1, and a scene of thin layers
\* (opacity 0.3) in front of a wall x = 3.
OpaqueScene ==
  [ShippedScene EXCEPT !.sphereColorAlpha.a = Q,
                       !.cubeColorAlpha.a = Q,
                       !.planeNormal = Vec3(0, Q, 0),
                       !.planeD = -Q]

ThinScene ==
  [ShippedScene EXCEPT !.sphereColorAlpha.a = 3 * (Q \div 10),
                       !.cubeColorAlpha.a = 3 * (Q \div 10),
                       !.planeNormal = Vec3(Q, 0, 0),
                       !.planeD = 3 * Q]

\* The shipped scene with a sphere of radius 1.2, which touches the box's
\* face x = 0.4 at (0.4, 0, 0).
TouchScene == [ShippedScene EXCEPT !.sphereRadius = 12 * (Q \div 10)]

\* The shipped scene with nearly opaque white objects and white for the
\* first checker colour: the sphere lets 0.02 of the light through, the box
\* 0.005.
DenseScene ==
  [ShippedScene EXCEPT !.sphereColorAlpha = Vec4(Q, Q, Q, 98 * (Q \div 100)),
                       !.cubeColorAlpha = Vec4(Q, Q, Q, 995 * (Q \div 1000)),
                       !.checkerColor1 = Vec3(Q, Q, Q)]

Scenes == {ShippedScene, OpaqueScene, ThinScene, TouchScene, DenseScene}

\* The platform's min/max rule for a NaN operand.
NanRules == {"formula", "number"}

\* Bounds of the rays the model traces.
TargetN == 2
SeedN == 1

\* The points the shipped camera's rays are aimed at: a grid in the plane
\* z = 0, four tenths apart.
TargetGrid ==
  {Tenths(4 * kx, 4 * ky, 0) : kx \in -TargetN..TargetN, ky \in -TargetN..TargetN}

CameraRays ==
  {[origin |-> ShippedCamera, aim |-> VSub(p, ShippedCamera)] : p \in TargetGrid}

\* Camera positions that put the intersection functions' cases in front of
\* the first iteration: on the x axis outside both objects, the sphere's
\* centre, inside the box, above the box near its y edge, on a tangent of
\* the sphere, EPSILON inside the sphere's surface, on the plane, on the
\* plane of a box face, above everything, behind the shipped plane below
\* the sphere and below the box, and on a diagonal through the box's edge
\* x = 0.4, z = 0.6.
ProbeOrigins ==
  { Tenths(-24, 0, 0),
    Tenths(-8, 0, 0),
    Tenths(8, 0, 0),
    Vec3(8 * (Q \div 10), 55 * (Q \div 100), 2 * Q),
    Vec3(-8 * (Q \div 10), 7 * (Q \div 10), 2 * Q),
    Vec3(-(Q \div 10) - EPSILON, 0, 0),
    Tenths(0, 0, -20),
    Tenths(4, 0, 20),
    Tenths(0, 0, 10),
    Tenths(24, 0, 0),
    Tenths(-8, 0, -30),
    Tenths(9, 0, -30),
    Tenths(-6, 5, 16) }

\* Directions before normalisation: the integer vectors up to SeedN, and
\* three directions within 0.002 of the x axis.
GridSeeds ==
  {Vec3(kx * Q, ky * Q, kz * Q) :
     kx \in -SeedN..SeedN, ky \in -SeedN..SeedN, kz \in -SeedN..SeedN}
  \ {Vec3(0, 0, 0)}

GrazingSeeds ==
  {Vec3(Q, 0, -(EPSILON \div 2)), Vec3(Q, 0, -EPSILON), Vec3(Q, 0, -2 * EPSILON)}

ProbeRays ==
  {[origin |-> o, aim |-> w] : o \in ProbeOrigins, w \in GridSeeds \cup GrazingSeeds}

Rays == CameraRays \cup ProbeRays

VARIABLES
  scene,             \* the uniforms of the scene
  nanRule,           \* the platform's min/max rule
  rayAim,            \* the argument of normalize in rayDir's definition
  rayOrigin, rayDir,
  finalColor, transmission,
  currentRayOrigin, currentRayDir,
  i,                 \* the loop counter
  pc,                \* "loop", "out" (past the loop), "done"
  exit,              \* how the loop was left
  FragColor,         \* the shader's output
  trail              \* the locals of the iterations run so far

\* The state of the ray-tracing fragment shader (task 3).
traceVars == <<scene, nanRule, rayAim, rayOrigin, rayDir, finalColor,
               transmission, currentRayOrigin, currentRayDir, i, pc, exit,
               FragColor, trail>>

\* The state of createShaderProgram and of the GL context it runs in
\* (task 4).
VARIABLES
  vertexCompiles,    \* whether the vertex source compiles
  fragmentCompiles,  \* whether the fragment source compiles
  programLinks,      \* whether the program links
  glNext,            \* the name the context hands out next
  glShaders,         \* the shader objects of the context
  glPrograms,        \* the program objects of the context
  glAttached,        \* <<program, shader>> for every attached shader
  glFlagged,         \* the shaders flagged for deletion while attached
  shaderPc,          \* the position in createShaderProgram / compileShader
  stage,             \* which call of compileShader is running
  id, success,       \* compileShader's and createShaderProgram's locals
  vertexShader, fragmentShader, program,
  created,           \* the names of the objects the call created
  shaderProgram      \* what createShaderProgram returned

shaderVars == <<vertexCompiles, fragmentCompiles, programLinks, glNext,
                glShaders, glPrograms, glAttached, glFlagged, shaderPc, stage,
                id, success, vertexShader, fragmentShader, program, created,
                shaderProgram>>

\* The state of the three-window render loop (task 1).
VARIABLES
  windows,           \* the keys of the map windows, in the map's order
  closeFlag,         \* GLFW's close flag of each window
  escape,            \* the windows in which ESC is held down
  shouldClose,       \* data.shouldClose of each window
  current,           \* the window whose context is current, 0 for none
  sameNames,         \* whether the contexts number their objects alike
  ctx,               \* the GL objects alive in each window's context
  flagged,           \* the contexts whose program in use was deleted
  inUse,             \* the contexts in which glUseProgram has run
  windowPc,          \* the position in main's render loop
  it,                \* the iterator of the loop over the map
  drawn,             \* what each window's last draw call drew
  rendered,          \* the windows rendered in the current pass
  destroyed          \* how often each window was destroyed

windowVars == <<windows, closeFlag, escape, shouldClose, current, sameNames,
                ctx, flagged, inUse, windowPc, it, drawn, rendered, destroyed>>

vars == <<traceVars, shaderVars, windowVars>>

\* The three programs are separate processes: while one runs, the state of
\* the other two stays as the predicates below leave it.
TraceIdle ==
  /\ scene = ShippedScene
  /\ nanRule = "number"
  /\ rayAim = Vec3(0, 0, -Q)
  /\ rayOrigin = ShippedCamera
  /\ rayDir = Vec3(0, 0, -Q)
  /\ finalColor = Vec3(0, 0, 0)
  /\ transmission = Q
  /\ currentRayOrigin = ShippedCamera
  /\ currentRayDir = Vec3(0, 0, -Q)
  /\ i = 0
  /\ pc = "idle"
  /\ exit = "none"
  /\ FragColor = Vec4(0, 0, 0, 0)
  /\ trail = <<>>

ShaderIdle ==
  /\ vertexCompiles = TRUE
  /\ fragmentCompiles = TRUE
  /\ programLinks = TRUE
  /\ glNext = 1
  /\ glShaders = {}
  /\ glPrograms = {}
  /\ glAttached = {}
  /\ glFlagged = {}
  /\ shaderPc = "idle"
  /\ stage = "none"
  /\ id = 0
  /\ success = FALSE
  /\ vertexShader = 0
  /\ fragmentShader = 0
  /\ program = 0
  /\ created = {}
  /\ shaderProgram = 0

WindowsIdle ==
  /\ windows = {}
  /\ closeFlag = <<>>
  /\ escape = {}
  /\ shouldClose = <<>>
  /\ current = 0
  /\ sameNames = FALSE
  /\ ctx = <<>>
  /\ flagged = {}
  /\ inUse = {}
  /\ windowPc = "idle"
  /\ it = 0
  /\ drawn = <<>>
  /\ rendered = {}
  /\ destroyed = <<>>

\* float t_hit = 1e20: above every distance of the model.
T_HIT_INIT == Inf

\* A cut-off at a transmission of 0.05.
CutOffAtFiveHundredths == Q \div 20

\* if (transmission < 0.01) break;
CUTOFF == Q \div 100

\* vec3(0.1, 0.1, 0.15)
BACKGROUND == Vec3(Q \div 10, Q \div 10, 15 * (Q \div 100))

\* The locals after the sphere test: t_hit, hitObjectColorAlpha, hitNormal
\* and hitType.
SphereCandidate(sc, ro, rd, t_sphere) ==
  IF t_sphere > EPSILON /\ t_sphere < T_HIT_INIT
  THEN [t_sphere |-> t_sphere, t_hit |-> t_sphere,
        hitObjectColorAlpha |-> sc.sphereColorAlpha,
        hitNormal |-> Normalize(VSub(VAdd(ro, VScale(rd, t_sphere)),
                                     sc.sphereCenter)),
        hitType |-> 1]
  ELSE [t_sphere |-> t_sphere, t_hit |-> T_HIT_INIT,
        hitObjectColorAlpha |-> Vec4(0, 0, 0, 0),
        hitNormal |-> Vec3(0, 0, 0),
        hitType |-> 0]

\* A box test that also replaces a sphere hit at the same distance.
CubeCandidateOnTie(sc, s, cube) ==
  IF cube.t > EPSILON /\ cube.t <= s.t_hit
  THEN [t_sphere |-> s.t_sphere, t_cube |-> cube.t, cubeHitNormal |-> cube.n,
        t_hit |-> cube.t, hitObjectColorAlpha |-> sc.cubeColorAlpha,
        hitNormal |-> cube.n, hitType |-> 2]
  ELSE [t_sphere |-> s.t_sphere, t_cube |-> cube.t, cubeHitNormal |-> cube.n,
        t_hit |-> s.t_hit, hitObjectColorAlpha |-> s.hitObjectColorAlpha,
        hitNormal |-> s.hitNormal, hitType |-> s.hitType]

\* The locals after the box test that follows: s the locals after the
\* sphere test, cube what intersectAABB gave.
CubeCandidate(sc, s, cube) ==
  IF cube.t > EPSILON /\ cube.t < s.t_hit
  THEN [t_sphere |-> s.t_sphere, t_cube |-> cube.t, cubeHitNormal |-> cube.n,
        t_hit |-> cube.t, hitObjectColorAlpha |-> sc.cubeColorAlpha,
        hitNormal |-> cube.n, hitType |-> 2]
  ELSE [t_sphere |-> s.t_sphere, t_cube |-> cube.t, cubeHitNormal |-> cube.n,
        t_hit |-> s.t_hit, hitObjectColorAlpha |-> s.hitObjectColorAlpha,
        hitNormal |-> s.hitNormal, hitType |-> s.hitType]

\* The locals c of an iteration, with an object hit beyond the plane's
\* distance t_plane dropped.
Occluded(c, t_plane) ==
  IF c.hitType > 0 /\ t_plane > EPSILON /\ t_plane < c.t_hit
  THEN [c EXCEPT !.t_hit = T_HIT_INIT,
                 !.hitObjectColorAlpha = Vec4(0, 0, 0, 0),
                 !.hitNormal = Vec3(0, 0, 0),
                 !.hitType = 0]
  ELSE c

\* Object tests that let the plane occlude the sphere and the box.
CandidatesOccluded(sc, ro, rd, rule) ==
  Occluded(CubeCandidate(sc,
             SphereCandidate(sc, ro, rd,
                             intersectSphere(ro, rd, sc.sphereCenter,
                                             sc.sphereRadius)),
             intersectAABB(ro, rd, sc.cubeMin, sc.cubeMax, rule)),
           intersectPlane(ro, rd, sc.planeNormal, sc.planeD))

\* The locals of an iteration after both object tests.
Candidates(sc, ro, rd, rule) ==
  CubeCandidate(sc,
    SphereCandidate(sc, ro, rd,
                    intersectSphere(ro, rd, sc.sphereCenter, sc.sphereRadius)),
    intersectAABB(ro, rd, sc.cubeMin, sc.cubeMax, rule))

\* A pattern's board coordinates taken from x and y whatever the plane's
\* normal.
BoardCoordsAlwaysXY(pn, planeHitPoint) ==
  <<planeHitPoint.x, planeHitPoint.y>>

\* vec2 boardCoords of a point of the plane.
BoardCoords(pn, planeHitPoint) ==
  IF Abs(pn.z) > 99 * (Q \div 100) THEN <<planeHitPoint.x, planeHitPoint.y>>
  ELSE IF Abs(pn.y) > 99 * (Q \div 100) THEN <<planeHitPoint.x, planeHitPoint.z>>
  ELSE <<planeHitPoint.y, planeHitPoint.z>>

\* A pattern with the checker scale left out of the second coordinate.
PatternUnscaledY(boardCoords, checkerScale) ==
  Mod2(Floor(FMul(boardCoords[1], checkerScale)) + Floor(boardCoords[2]))

\* float pattern = mod(floor(boardCoords.x * checkerScale)
\*                     + floor(boardCoords.y * checkerScale), 2.0);
Pattern(boardCoords, checkerScale) ==
  Mod2(Floor(FMul(boardCoords[1], checkerScale))
       + Floor(FMul(boardCoords[2], checkerScale)))

\* vec3 checkerCol = (pattern < 0.5) ? checkerColor1 : checkerColor2;
CheckerCol(sc, planeHitPoint) ==
  IF Pattern(BoardCoords(sc.planeNormal, planeHitPoint), sc.checkerScale) < Q \div 2
  THEN sc.checkerColor1
  ELSE sc.checkerColor2

\* What an iteration leaves in the trail: the ray and the accumulators it
\* started from, its locals, and whether it went on to test the plane
\* (t_plane is declared in that branch only).
Locals(c, plane_tested, t_plane) ==
  [ro |-> currentRayOrigin, rd |-> currentRayDir,
   trans |-> transmission, color |-> finalColor,
   t_sphere |-> c.t_sphere, t_cube |-> c.t_cube,
   cubeHitNormal |-> c.cubeHitNormal, t_hit |-> c.t_hit,
   hitObjectColorAlpha |-> c.hitObjectColorAlpha,
   hitNormal |-> c.hitNormal, hitType |-> c.hitType,
   plane_tested |-> plane_tested, t_plane |-> t_plane]

\* A start in which the accumulated colour is not reset: it holds what an
\* earlier evaluation left.
InitCarried ==
  /\ scene \in Scenes
  /\ nanRule \in NanRules
  /\ \E r \in Rays :
       /\ rayAim = r.aim
       /\ rayOrigin = r.origin
       /\ rayDir = Normalize(r.aim)
       /\ currentRayOrigin = r.origin
       /\ currentRayDir = Normalize(r.aim)
  /\ finalColor \in {Vec3(0, 0, 0), BACKGROUND}
  /\ transmission = Q
  /\ i = 0
  /\ pc = "loop"
  /\ exit = "none"
  /\ FragColor = Vec4(0, 0, 0, 0)
  /\ trail = <<>>
  /\ ShaderIdle
  /\ WindowsIdle

Init ==
  /\ scene \in Scenes
  /\ nanRule \in NanRules
  /\ \E r \in Rays :
       /\ rayAim = r.aim
       /\ rayOrigin = r.origin
       /\ rayDir = Normalize(r.aim)
       /\ currentRayOrigin = r.origin
       /\ currentRayDir = Normalize(r.aim)
  /\ finalColor = Vec3(0, 0, 0)
  /\ transmission = Q
  /\ i = 0
  /\ pc = "loop"
  /\ exit = "none"
  /\ FragColor = Vec4(0, 0, 0, 0)
  /\ trail = <<>>
  /\ ShaderIdle
  /\ WindowsIdle

\* if (transmission < 0.01) break;
CutOff ==
  /\ pc = "loop" /\ i < MAX_BOUNCES
  /\ transmission < CUTOFF
  /\ pc' = "out" /\ exit' = "cutoff"
  /\ UNCHANGED <<scene, nanRule, rayAim, rayOrigin, rayDir, finalColor,
                 transmission, currentRayOrigin, currentRayDir, i, FragColor,
                 trail>>
  /\ UNCHANGED <<shaderVars, windowVars>>

\* A blend whose two statements are swapped: the colour is weighted by the
\* transmission after the hit.
BlendAfterDecay(c) ==
  /\ c.hitType > 0
  /\ finalColor' = VAdd(finalColor,
                        VScale(VScale(c.hitObjectColorAlpha.rgb,
                                      FMul(transmission,
                                           Q - c.hitObjectColorAlpha.a)),
                               c.hitObjectColorAlpha.a))
  /\ transmission' = FMul(transmission, Q - c.hitObjectColorAlpha.a)
  /\ currentRayOrigin' =
       VAdd(currentRayOrigin, VScale(currentRayDir, c.t_hit + 2 * EPSILON))
  /\ trail' = Append(trail, Locals(c, FALSE, NoHit))

\* A blend that moves the origin past the hit by EPSILON only.
BlendSingleEpsilon(c) ==
  /\ c.hitType > 0
  /\ finalColor' = VAdd(finalColor,
                        VScale(VScale(c.hitObjectColorAlpha.rgb, transmission),
                               c.hitObjectColorAlpha.a))
  /\ transmission' = FMul(transmission, Q - c.hitObjectColorAlpha.a)
  /\ currentRayOrigin' =
       VAdd(currentRayOrigin, VScale(currentRayDir, c.t_hit + EPSILON))
  /\ trail' = Append(trail, Locals(c, FALSE, NoHit))

\* A blend that restarts the ray 2 * EPSILON in front of the hit point.
BlendStepBack(c) ==
  /\ c.hitType > 0
  /\ finalColor' = VAdd(finalColor,
                        VScale(VScale(c.hitObjectColorAlpha.rgb, transmission),
                               c.hitObjectColorAlpha.a))
  /\ transmission' = FMul(transmission, Q - c.hitObjectColorAlpha.a)
  /\ currentRayOrigin' =
       VAdd(currentRayOrigin, VScale(currentRayDir, c.t_hit - 2 * EPSILON))
  /\ trail' = Append(trail, Locals(c, FALSE, NoHit))

\* A blend that multiplies the transmission by 1 + alpha.
BlendAmplified(c) ==
  /\ c.hitType > 0
  /\ finalColor' = VAdd(finalColor,
                        VScale(VScale(c.hitObjectColorAlpha.rgb, transmission),
                               c.hitObjectColorAlpha.a))
  /\ transmission' = FMul(transmission, Q + c.hitObjectColorAlpha.a)
  /\ currentRayOrigin' =
       VAdd(currentRayOrigin, VScale(currentRayDir, c.t_hit + 2 * EPSILON))
  /\ trail' = Append(trail, Locals(c, FALSE, NoHit))

\* A blend that leaves the transmission as it was.
BlendNoDecay(c) ==
  /\ c.hitType > 0
  /\ finalColor' = VAdd(finalColor,
                        VScale(VScale(c.hitObjectColorAlpha.rgb, transmission),
                               c.hitObjectColorAlpha.a))
  /\ transmission' = transmission
  /\ currentRayOrigin' =
       VAdd(currentRayOrigin, VScale(currentRayDir, c.t_hit + 2 * EPSILON))
  /\ trail' = Append(trail, Locals(c, FALSE, NoHit))

\* The branch hitType > 0 of an iteration with locals c.
Blend(c) ==
  /\ c.hitType > 0
  /\ finalColor' = VAdd(finalColor,
                        VScale(VScale(c.hitObjectColorAlpha.rgb, transmission),
                               c.hitObjectColorAlpha.a))
  /\ transmission' = FMul(transmission, Q - c.hitObjectColorAlpha.a)
  /\ currentRayOrigin' =
       VAdd(currentRayOrigin, VScale(currentRayDir, c.t_hit + 2 * EPSILON))
  /\ trail' = Append(trail, Locals(c, FALSE, NoHit))

\* An object iteration that does not count itself: ++i is lost.
HitObjectUncounted ==
  /\ pc = "loop" /\ i < MAX_BOUNCES
  /\ ~(transmission < CUTOFF)
  /\ Blend(Candidates(scene, currentRayOrigin, currentRayDir, nanRule))
  /\ UNCHANGED <<scene, nanRule, rayAim, rayOrigin, rayDir, currentRayDir,
                 i, pc, exit, FragColor>>
  /\ UNCHANGED <<shaderVars, windowVars>>

\* An iteration that hits the sphere or the box.
HitObject ==
  /\ pc = "loop" /\ i < MAX_BOUNCES
  /\ ~(transmission < CUTOFF)
  /\ Blend(Candidates(scene, currentRayOrigin, currentRayDir, nanRule))
  /\ i' = i + 1
  /\ UNCHANGED <<scene, nanRule, rayAim, rayOrigin, rayDir, currentRayDir,
                 pc, exit, FragColor>>
  /\ UNCHANGED <<shaderVars, windowVars>>

\* The branch of an iteration with locals c that hit neither object and
\* found the plane at t_plane.
Checker(c, t_plane) ==
  /\ c.hitType = 0
  /\ t_plane > EPSILON
  /\ finalColor' =
       VAdd(finalColor,
            VScale(CheckerCol(scene, VAdd(currentRayOrigin,
                                          VScale(currentRayDir, t_plane))),
                   transmission))
  /\ trail' = Append(trail, Locals(c, TRUE, t_plane))

\* A plane iteration without its break: the loop goes on to the next
\* iteration.
HitPlaneNoBreak ==
  /\ pc = "loop" /\ i < MAX_BOUNCES
  /\ ~(transmission < CUTOFF)
  /\ Checker(Candidates(scene, currentRayOrigin, currentRayDir, nanRule),
             intersectPlane(currentRayOrigin, currentRayDir,
                            scene.planeNormal, scene.planeD))
  /\ i' = i + 1
  /\ UNCHANGED <<scene, nanRule, rayAim, rayOrigin, rayDir, transmission,
                 currentRayOrigin, currentRayDir, pc, exit, FragColor>>
  /\ UNCHANGED <<shaderVars, windowVars>>

\* An iteration that hits neither object and hits the plane.
HitPlane ==
  /\ pc = "loop" /\ i < MAX_BOUNCES
  /\ ~(transmission < CUTOFF)
  /\ Checker(Candidates(scene, currentRayOrigin, currentRayDir, nanRule),
             intersectPlane(currentRayOrigin, currentRayDir,
                            scene.planeNormal, scene.planeD))
  /\ pc' = "out" /\ exit' = "plane"
  /\ UNCHANGED <<scene, nanRule, rayAim, rayOrigin, rayDir, transmission,
                 currentRayOrigin, currentRayDir, i, FragColor>>
  /\ UNCHANGED <<shaderVars, windowVars>>

\* A background branch that adds the background colour unweighted.
BackgroundUnweighted(c, t_plane) ==
  /\ c.hitType = 0
  /\ ~(t_plane > EPSILON)
  /\ finalColor' = VAdd(finalColor, BACKGROUND)
  /\ trail' = Append(trail, Locals(c, TRUE, t_plane))

\* The branch of an iteration with locals c that hit nothing.
Background(c, t_plane) ==
  /\ c.hitType = 0
  /\ ~(t_plane > EPSILON)
  /\ finalColor' = VAdd(finalColor, VScale(BACKGROUND, transmission))
  /\ trail' = Append(trail, Locals(c, TRUE, t_plane))

\* An iteration that hits nothing: the background colour.
MissAll ==
  /\ pc = "loop" /\ i < MAX_BOUNCES
  /\ ~(transmission < CUTOFF)
  /\ Background(Candidates(scene, currentRayOrigin, currentRayDir, nanRule),
                intersectPlane(currentRayOrigin, currentRayDir,
                               scene.planeNormal, scene.planeD))
  /\ pc' = "out" /\ exit' = "background"
  /\ UNCHANGED <<scene, nanRule, rayAim, rayOrigin, rayDir, transmission,
                 currentRayOrigin, currentRayDir, i, FragColor>>
  /\ UNCHANGED <<shaderVars, windowVars>>

\* A loop exit that blends the background into what is still transmitted.
ExhaustedIntoBackground ==
  /\ pc = "loop" /\ ~(i < MAX_BOUNCES)
  /\ pc' = "out" /\ exit' = "budget"
  /\ finalColor' = VAdd(finalColor, VScale(BACKGROUND, transmission))
  /\ UNCHANGED <<scene, nanRule, rayAim, rayOrigin, rayDir,
                 transmission, currentRayOrigin, currentRayDir, i, FragColor,
                 trail>>
  /\ UNCHANGED <<shaderVars, windowVars>>

\* The loop condition i < MAX_BOUNCES fails.
Exhausted ==
  /\ pc = "loop" /\ ~(i < MAX_BOUNCES)
  /\ pc' = "out" /\ exit' = "budget"
  /\ UNCHANGED <<scene, nanRule, rayAim, rayOrigin, rayDir, finalColor,
                 transmission, currentRayOrigin, currentRayDir, i, FragColor,
                 trail>>
  /\ UNCHANGED <<shaderVars, windowVars>>

\* FragColor = vec4(finalColor, 1.0);
WriteFragColor ==
  /\ pc = "out"
  /\ FragColor' = [rgb |-> finalColor, a |-> Q]
  /\ pc' = "done"
  /\ UNCHANGED <<scene, nanRule, rayAim, rayOrigin, rayDir, finalColor,
                 transmission, currentRayOrigin, currentRayDir, i, exit, trail>>
  /\ UNCHANGED <<shaderVars, windowVars>>

Next ==
  \/ CutOff
  \/ HitObject
  \/ HitPlane
  \/ MissAll
  \/ Exhausted
  \/ WriteFragColor

Spec == Init /\ [][Next]_vars

TypeOK ==
  /\ i \in 0..MAX_BOUNCES
  /\ pc \in {"loop", "out", "done"}
  /\ exit \in {"none", "cutoff", "plane", "background", "budget"}
  /\ Len(trail) <= MAX_BOUNCES

-----------------------------------------------------------------------------
(***************************************************************************)
(* createShaderProgram and compileShader of task 4, and the objects of the *)
(* GL context they run in.  Shader and program objects share one space of  *)
(* names; the name 0 is no object.                                         *)
(***************************************************************************)

\* How many names the context may have handed out before the call.
PriorNames == 2

\* glDeleteShader(s) for the shader objects: the value 0 is ignored, and a
\* shader attached to a program stays until it is detached.
ShadersAfterDelete(shaders, attached, s) ==
  IF s = 0 \/ \E p \in glPrograms : <<p, s>> \in attached
  THEN shaders
  ELSE shaders \ {s}

\* glDeleteShader(s) for the shaders flagged for deletion.
FlaggedAfterDelete(shaders, attached, flags, s) ==
  IF s \in shaders /\ \E p \in glPrograms : <<p, s>> \in attached
  THEN flags \cup {s}
  ELSE flags

\* createShaderProgram is called with the two sources (task4.cpp line 216).
ShaderInit ==
  /\ vertexCompiles \in BOOLEAN
  /\ fragmentCompiles \in BOOLEAN
  /\ programLinks \in BOOLEAN
  /\ glNext \in 1..(PriorNames + 1)
  /\ glShaders = {}
  /\ glPrograms = {}
  /\ glAttached = {}
  /\ glFlagged = {}
  /\ shaderPc = "glCreateShader"
  /\ stage = "vertex"
  /\ id = 0
  /\ success = FALSE
  /\ vertexShader = 0
  /\ fragmentShader = 0
  /\ program = 0
  /\ created = {}
  /\ shaderProgram = -1
  /\ TraceIdle
  /\ WindowsIdle

\* unsigned int id = glCreateShader(type);
GlCreateShader ==
  /\ shaderPc = "glCreateShader"
  /\ id' = glNext
  /\ glNext' = glNext + 1
  /\ glShaders' = glShaders \cup {glNext}
  /\ created' = created \cup {glNext}
  /\ shaderPc' = "glCompileShader"
  /\ UNCHANGED <<vertexCompiles, fragmentCompiles, programLinks, glPrograms,
                 glAttached, glFlagged, stage, success, vertexShader,
                 fragmentShader, program, shaderProgram>>
  /\ UNCHANGED <<traceVars, windowVars>>

\* glShaderSource; glCompileShader; glGetShaderiv(id, GL_COMPILE_STATUS,
\* &success);
GlCompileShader ==
  /\ shaderPc = "glCompileShader"
  /\ success' = IF stage = "vertex" THEN vertexCompiles ELSE fragmentCompiles
  /\ shaderPc' = "compiled"
  /\ UNCHANGED <<vertexCompiles, fragmentCompiles, programLinks, glNext,
                 glShaders, glPrograms, glAttached, glFlagged, stage, id,
                 vertexShader, fragmentShader, program, created, shaderProgram>>
  /\ UNCHANGED <<traceVars, windowVars>>

\* What the caller does with compileShader's result r: the vertex shader's
\* call is followed by the fragment shader's, and that by line 505.
ReturnFromCompile(r) ==
  /\ vertexShader' = IF stage = "vertex" THEN r ELSE vertexShader
  /\ fragmentShader' = IF stage = "fragment" THEN r ELSE fragmentShader
  /\ stage' = IF stage = "vertex" THEN "fragment" ELSE "none"
  /\ shaderPc' = IF stage = "vertex" THEN "glCreateShader" ELSE "check"

\* if (!success) { ...; glDeleteShader(id); return 0; }
CompileFailed ==
  /\ shaderPc = "compiled"
  /\ ~success
  /\ glShaders' = ShadersAfterDelete(glShaders, glAttached, id)
  /\ glFlagged' = FlaggedAfterDelete(glShaders, glAttached, glFlagged, id)
  /\ ReturnFromCompile(0)
  /\ UNCHANGED <<vertexCompiles, fragmentCompiles, programLinks, glNext,
                 glPrograms, glAttached, id, success, program, created,
                 shaderProgram>>
  /\ UNCHANGED <<traceVars, windowVars>>

\* return id;
CompileSucceeded ==
  /\ shaderPc = "compiled"
  /\ success
  /\ ReturnFromCompile(id)
  /\ UNCHANGED <<vertexCompiles, fragmentCompiles, programLinks, glNext,
                 glShaders, glPrograms, glAttached, glFlagged, id, success,
                 program, created, shaderProgram>>
  /\ UNCHANGED <<traceVars, windowVars>>

\* if (vertexShader == 0 || fragmentShader == 0) return 0;
ShaderMissing ==
  /\ shaderPc = "check"
  /\ vertexShader = 0 \/ fragmentShader = 0
  /\ shaderProgram' = 0
  /\ shaderPc' = "returned"
  /\ UNCHANGED <<vertexCompiles, fragmentCompiles, programLinks, glNext,
                 glShaders, glPrograms, glAttached, glFlagged, stage, id,
                 success, vertexShader, fragmentShader, program, created>>
  /\ UNCHANGED <<traceVars, windowVars>>

\* unsigned int program = glCreateProgram();
GlCreateProgram ==
  /\ shaderPc = "check"
  /\ ~(vertexShader = 0 \/ fragmentShader = 0)
  /\ program' = glNext
  /\ glNext' = glNext + 1
  /\ glPrograms' = glPrograms \cup {glNext}
  /\ created' = created \cup {glNext}
  /\ shaderPc' = "glAttachShader"
  /\ UNCHANGED <<vertexCompiles, fragmentCompiles, programLinks, glShaders,
                 glAttached, glFlagged, stage, id, success, vertexShader,
                 fragmentShader, shaderProgram>>
  /\ UNCHANGED <<traceVars, windowVars>>

\* glAttachShader(program, vertexShader);
\* glAttachShader(program, fragmentShader);
GlAttachShaders ==
  /\ shaderPc = "glAttachShader"
  /\ glAttached' = glAttached \cup {<<program, vertexShader>>,
                                    <<program, fragmentShader>>}
  /\ shaderPc' = "glLinkProgram"
  /\ UNCHANGED <<vertexCompiles, fragmentCompiles, programLinks, glNext,
                 glShaders, glPrograms, glFlagged, stage, id, success,
                 vertexShader, fragmentShader, program, created, shaderProgram>>
  /\ UNCHANGED <<traceVars, windowVars>>

\* glLinkProgram(program); glGetProgramiv(program, GL_LINK_STATUS, &success);
GlLinkProgram ==
  /\ shaderPc = "glLinkProgram"
  /\ success' = programLinks
  /\ shaderPc' = "linked"
  /\ UNCHANGED <<vertexCompiles, fragmentCompiles, programLinks, glNext,
                 glShaders, glPrograms, glAttached, glFlagged, stage, id,
                 vertexShader, fragmentShader, program, created, shaderProgram>>
  /\ UNCHANGED <<traceVars, windowVars>>

\* if (!success) { ...; glDeleteProgram(program); program = 0; }
\* The program's shaders are detached; one flagged for deletion goes too.
LinkFailed ==
  /\ shaderPc = "linked"
  /\ ~success
  /\ glPrograms' = glPrograms \ {program}
  /\ glAttached' = {a \in glAttached : a[1] # program}
  /\ glShaders' = glShaders \ {s \in glFlagged : <<program, s>> \in glAttached}
  /\ glFlagged' = {s \in glFlagged : <<program, s>> \notin glAttached}
  /\ program' = 0
  /\ shaderPc' = "glDeleteShader"
  /\ UNCHANGED <<vertexCompiles, fragmentCompiles, programLinks, glNext,
                 stage, id, success, vertexShader, fragmentShader, created,
                 shaderProgram>>
  /\ UNCHANGED <<traceVars, windowVars>>

LinkSucceeded ==
  /\ shaderPc = "linked"
  /\ success
  /\ shaderPc' = "glDeleteShader"
  /\ UNCHANGED <<vertexCompiles, fragmentCompiles, programLinks, glNext,
                 glShaders, glPrograms, glAttached, glFlagged, stage, id,
                 success, vertexShader, fragmentShader, program, created,
                 shaderProgram>>
  /\ UNCHANGED <<traceVars, windowVars>>

\* glDeleteShader(vertexShader); glDeleteShader(fragmentShader);
\* return program;
GlDeleteShaders ==
  /\ shaderPc = "glDeleteShader"
  /\ glShaders' =
       ShadersAfterDelete(ShadersAfterDelete(glShaders, glAttached,
                                             vertexShader),
                          glAttached, fragmentShader)
  /\ glFlagged' =
       FlaggedAfterDelete(glShaders, glAttached,
                          FlaggedAfterDelete(glShaders, glAttached, glFlagged,
                                             vertexShader),
                          fragmentShader)
  /\ shaderProgram' = program
  /\ shaderPc' = "returned"
  /\ UNCHANGED <<vertexCompiles, fragmentCompiles, programLinks, glNext,
                 glPrograms, glAttached, stage, id, success, vertexShader,
                 fragmentShader, program, created>>
  /\ UNCHANGED <<traceVars, windowVars>>

ShaderNext ==
  \/ GlCreateShader
  \/ GlCompileShader
  \/ CompileFailed
  \/ CompileSucceeded
  \/ ShaderMissing
  \/ GlCreateProgram
  \/ GlAttachShaders
  \/ GlLinkProgram
  \/ LinkFailed
  \/ LinkSucceeded
  \/ GlDeleteShaders

ShaderSpec == ShaderInit /\ [][ShaderNext]_vars

-----------------------------------------------------------------------------
(***************************************************************************)
(* The render loop of task 1.  A window is named by its place in the map   *)
(* windows, which is keyed by the window's address: the map's order need   *)
(* not be the order of creation.  Every window was created with no shared  *)
(* context (glfwCreateWindow(..., NULL, NULL)), so every context has its   *)
(* own objects and its own space of names.                                 *)
(***************************************************************************)

\* for (int i = 0; i < 3; ++i): the windows the set-up creates.
NumWindows == 3

AllWindows == 1..NumWindows

\* windows.end()
End == NumWindows + 1

\* The objects the set-up creates in each window's context.
Objects == {"VAO", "VBO", "EBO", "program"}

\* windows.begin() of the map with the keys S.
Begin(S) ==
  IF S = {} THEN End ELSE CHOOSE w \in S : \A v \in S : w <= v

\* it++ and the result of windows.erase(it): the key after k.
After(S, k) == Begin({w \in S : w > k})

\* glDeleteVertexArrays, glDeleteBuffers (twice) and glDeleteProgram on the
\* objects objs of a context: a program in use is flagged and stays.
AfterDeletes(objs, used) ==
  IF used THEN objs \cap {"program"} ELSE {}

\* The contexts after the clean-up of the window w: its four names are
\* deleted in the context that is current, and glfwDestroyWindow destroys
\* w's context with all it holds.
CtxAfterCleanup(w) ==
  [v \in AllWindows |->
     IF v = w THEN {}
     ELSE IF v = current /\ sameNames THEN AfterDeletes(ctx[v], v \in inUse)
     ELSE ctx[v]]

\* The contexts whose program is flagged for deletion after the clean-up of w.
FlaggedAfterCleanup(w) ==
  (flagged \cup
     (IF current # w /\ current # 0 /\ sameNames /\ current \in inUse
         /\ "program" \in ctx[current]
      THEN {current} ELSE {})) \ {w}

\* The state when the render loop is reached: three windows with their
\* objects, the context of the window created last is current.
WindowInit ==
  /\ windows = AllWindows
  /\ closeFlag = [w \in AllWindows |-> FALSE]
  /\ escape = {}
  /\ shouldClose = [w \in AllWindows |-> FALSE]
  /\ current \in AllWindows
  /\ sameNames \in BOOLEAN
  /\ ctx = [w \in AllWindows |-> Objects]
  /\ flagged = {}
  /\ inUse = {}
  /\ windowPc = "while"
  /\ it = End
  /\ drawn = [w \in AllWindows |-> {}]
  /\ rendered = {}
  /\ destroyed = [w \in AllWindows |-> 0]
  /\ TraceIdle
  /\ ShaderIdle

\* while (!windows.empty()) {
EnterPass ==
  /\ windowPc = "while"
  /\ windows # {}
  /\ windowPc' = "glfwPollEvents"
  /\ UNCHANGED <<windows, closeFlag, escape, shouldClose, current, sameNames,
                 ctx, flagged, inUse, it, drawn, rendered, destroyed>>
  /\ UNCHANGED <<traceVars, shaderVars>>

\* glfwPollEvents(): the user asks some windows to close, and holds ESC down
\* in at most one window; auto it = windows.begin();
PollEvents ==
  /\ windowPc = "glfwPollEvents"
  /\ \E closed \in SUBSET windows :
       closeFlag' = [w \in AllWindows |-> closeFlag[w] \/ w \in closed]
  /\ \E esc \in {e \in SUBSET windows : Cardinality(e) <= 1} : escape' = esc
  /\ it' = Begin(windows)
  /\ rendered' = {}
  /\ windowPc' = "render"
  /\ UNCHANGED <<windows, shouldClose, current, sameNames, ctx, flagged,
                 inUse, drawn, destroyed>>
  /\ UNCHANGED <<traceVars, shaderVars>>

\* if (glfwWindowShouldClose(currentWindow)) { data.shouldClose = true;
\*   it++; continue; }
ObserveClose ==
  /\ windowPc = "render"
  /\ it \in windows
  /\ closeFlag[it]
  /\ shouldClose' = [shouldClose EXCEPT ![it] = TRUE]
  /\ it' = After(windows, it)
  /\ UNCHANGED <<windows, closeFlag, escape, current, sameNames, ctx, flagged,
                 inUse, windowPc, drawn, rendered, destroyed>>
  /\ UNCHANGED <<traceVars, shaderVars>>

\* glfwMakeContextCurrent(currentWindow); processInput(currentWindow);
\* glUseProgram(data.shaderProgram); ... glBindVertexArray(data.VAO);
\* glDrawElements(...); glfwSwapBuffers(currentWindow); it++;
\* The draw call draws with the objects the context still holds.
RenderWindow ==
  /\ windowPc = "render"
  /\ it \in windows
  /\ ~closeFlag[it]
  /\ current' = it
  /\ closeFlag' = [closeFlag EXCEPT ![it] = it \in escape]
  /\ inUse' = IF "program" \in ctx[it] THEN inUse \cup {it} ELSE inUse
  /\ drawn' = [drawn EXCEPT ![it] = ctx[it]]
  /\ rendered' = rendered \cup {it}
  /\ it' = After(windows, it)
  /\ UNCHANGED <<windows, escape, shouldClose, sameNames, ctx, flagged,
                 windowPc, destroyed>>
  /\ UNCHANGED <<traceVars, shaderVars>>

\* The loop over the map is through; it = windows.begin();
BeginCleanup ==
  /\ windowPc = "render"
  /\ it = End
  /\ it' = Begin(windows)
  /\ windowPc' = "cleanup"
  /\ UNCHANGED <<windows, closeFlag, escape, shouldClose, current, sameNames,
                 ctx, flagged, inUse, drawn, rendered, destroyed>>
  /\ UNCHANGED <<traceVars, shaderVars>>

\* What glfwDestroyWindow(it->first); it = windows.erase(it); do: a current
\* context is detached before it is destroyed.
DestroyAndErase ==
  /\ current' = IF current = it THEN 0 ELSE current
  /\ inUse' = inUse \ {it}
  /\ windows' = windows \ {it}
  /\ destroyed' = [destroyed EXCEPT ![it] = @ + 1]
  /\ it' = After(windows, it)

\* if (it->second.shouldClose) { glDeleteVertexArrays ... glDeleteProgram;
\*   glfwDestroyWindow(it->first); it = windows.erase(it); }
\* The four deletes act on the context that is current.
DestroyWindow ==
  /\ windowPc = "cleanup"
  /\ it \in windows
  /\ shouldClose[it]
  /\ current # 0
  /\ ctx' = CtxAfterCleanup(it)
  /\ flagged' = FlaggedAfterCleanup(it)
  /\ DestroyAndErase
  /\ UNCHANGED <<closeFlag, escape, shouldClose, sameNames, windowPc, drawn,
                 rendered>>
  /\ UNCHANGED <<traceVars, shaderVars>>

\* The same with no current context, where a GL call is undefined: here the
\* four deletes do nothing.
DestroyWithoutContext ==
  /\ windowPc = "cleanup"
  /\ it \in windows
  /\ shouldClose[it]
  /\ current = 0
  /\ ctx' = [ctx EXCEPT ![it] = {}]
  /\ flagged' = flagged \ {it}
  /\ DestroyAndErase
  /\ UNCHANGED <<closeFlag, escape, shouldClose, sameNames, windowPc, drawn,
                 rendered>>
  /\ UNCHANGED <<traceVars, shaderVars>>

\* The same with no current context: here the first delete ends the process.
CrashWithoutContext ==
  /\ windowPc = "cleanup"
  /\ it \in windows
  /\ shouldClose[it]
  /\ current = 0
  /\ windowPc' = "crashed"
  /\ UNCHANGED <<windows, closeFlag, escape, shouldClose, current, sameNames,
                 ctx, flagged, inUse, it, drawn, rendered, destroyed>>
  /\ UNCHANGED <<traceVars, shaderVars>>

\* } else { it++; }
KeepWindow ==
  /\ windowPc = "cleanup"
  /\ it \in windows
  /\ ~shouldClose[it]
  /\ it' = After(windows, it)
  /\ UNCHANGED <<windows, closeFlag, escape, shouldClose, current, sameNames,
                 ctx, flagged, inUse, windowPc, drawn, rendered, destroyed>>
  /\ UNCHANGED <<traceVars, shaderVars>>

\* The clean-up loop is through: back to the test of the while.
EndCleanup ==
  /\ windowPc = "cleanup"
  /\ it = End
  /\ windowPc' = "while"
  /\ UNCHANGED <<windows, closeFlag, escape, shouldClose, current, sameNames,
                 ctx, flagged, inUse, it, drawn, rendered, destroyed>>
  /\ UNCHANGED <<traceVars, shaderVars>>

\* windows.empty(): glfwTerminate(); return 0;
Terminate ==
  /\ windowPc = "while"
  /\ windows = {}
  /\ windowPc' = "glfwTerminate"
  /\ UNCHANGED <<windows, closeFlag, escape, shouldClose, current, sameNames,
                 ctx, flagged, inUse, it, drawn, rendered, destroyed>>
  /\ UNCHANGED <<traceVars, shaderVars>>

WindowNext ==
  \/ EnterPass
  \/ PollEvents
  \/ ObserveClose
  \/ RenderWindow
  \/ BeginCleanup
  \/ DestroyWindow
  \/ DestroyWithoutContext
  \/ CrashWithoutContext
  \/ KeepWindow
  \/ EndCleanup
  \/ Terminate

WindowSpec == WindowInit /\ [][WindowNext]_vars

-----------------------------------------------------------------------------
(***************************************************************************)
(* The claims.  A record of the trail holds what one iteration read (ro,   *)
(* rd, trans, color) and what its tests returned; the formulas below       *)
(* relate the two.                                                         *)
(***************************************************************************)

Iterations == 1..Len(trail)

\* Half of EPSILON: the distance below which two results count as equal
\* (the arithmetic's resolution is a twentieth of that).
Tol == EPSILON \div 2

\* The sphere's discriminant and roots for the ray of a trail record.
DiscOf(rec) ==
  SphereDiscriminant(rec.ro, rec.rd, scene.sphereCenter, scene.sphereRadius)
T1Of(rec) == SphereT1(rec.ro, rec.rd, scene.sphereCenter, scene.sphereRadius)
T2Of(rec) == SphereT2(rec.ro, rec.rd, scene.sphereCenter, scene.sphereRadius)

\* The smallest of the roots t1, t2 that exceeds EPSILON, and -1 when
\* neither does.
SmallestRootAbove(t1, t2) ==
  IF {t \in {t1, t2} : t > EPSILON} = {}
  THEN NoHit
  ELSE CHOOSE t \in {t1, t2} :
         /\ t > EPSILON
         /\ \A u \in {t1, t2} : u > EPSILON => t <= u

\* C3 as claimed: with a non-negative discriminant intersectSphere returns
\* the smallest root above EPSILON, -1 only when neither root is above it,
\* and t2 whenever t1 < EPSILON <= t2.
C3_Original ==
  \A k \in Iterations :
    DiscOf(trail[k]) >= 0 =>
      /\ T1Of(trail[k]) <= T2Of(trail[k])
      /\ trail[k].t_sphere = SmallestRootAbove(T1Of(trail[k]), T2Of(trail[k]))
      /\ (T1Of(trail[k]) < EPSILON /\ EPSILON <= T2Of(trail[k])
            => trail[k].t_sphere = T2Of(trail[k]))

\* C3 amended: with a non-negative discriminant intersectSphere returns the
\* smallest root above EPSILON and -1 only when neither root is above it;
\* it returns t2 when t1 <= EPSILON < t2, and -1 (not t2) when t2 is
\* exactly EPSILON.
C3_SmallestRootAboveEpsilon ==
  \A k \in Iterations :
    DiscOf(trail[k]) >= 0 =>
      /\ T1Of(trail[k]) <= T2Of(trail[k])
      /\ trail[k].t_sphere = SmallestRootAbove(T1Of(trail[k]), T2Of(trail[k]))
      /\ (trail[k].t_sphere = NoHit <=> T2Of(trail[k]) <= EPSILON)
      /\ (T1Of(trail[k]) <= EPSILON /\ EPSILON < T2Of(trail[k])
            => trail[k].t_sphere = T2Of(trail[k]))
      /\ (T1Of(trail[k]) < EPSILON /\ T2Of(trail[k]) = EPSILON
            => trail[k].t_sphere = NoHit)

\* C3's case: an iteration whose origin is inside the sphere returned t2, an
\* earlier one whose origin was outside returned t1 < t2.
C3_Witness ==
  /\ Len(trail) >= 2
  /\ DiscOf(trail[1]) > 0
  /\ T1Of(trail[1]) > EPSILON
  /\ trail[1].t_sphere = T1Of(trail[1])
  /\ trail[1].t_sphere < T2Of(trail[1])
  /\ T1Of(trail[2]) < EPSILON
  /\ T2Of(trail[2]) > EPSILON
  /\ trail[2].t_sphere = T2Of(trail[2])

\* The distance -b / (2a) of the point where a tangent ray touches.
TangentT(rec) ==
  FDiv(-SphereB(rec.ro, rec.rd, scene.sphereCenter), 2 * SphereA(rec.rd))

\* C4 as claimed: intersectSphere returns -1 whenever the discriminant is
\* zero or negative.
C4_Original ==
  \A k \in Iterations :
    DiscOf(trail[k]) <= 0 => trail[k].t_sphere = NoHit

\* C4 amended: intersectSphere returns -1 whenever the discriminant is
\* negative; with a zero discriminant (a tangent ray) it returns the
\* distance -b/(2a) of the tangent point when that exceeds EPSILON, and -1
\* otherwise.
C4_NegativeDiscriminantNoHit ==
  \A k \in Iterations :
    /\ DiscOf(trail[k]) < 0 => trail[k].t_sphere = NoHit
    /\ DiscOf(trail[k]) = 0 =>
         trail[k].t_sphere =
           (IF TangentT(trail[k]) > EPSILON THEN TangentT(trail[k]) ELSE NoHit)

\* C4's case: a tangent ray whose tangent point lies ahead was traced and
\* the sphere was hit there.
C4_Witness ==
  /\ Len(trail) >= 1
  /\ DiscOf(trail[1]) = 0
  /\ TangentT(trail[1]) > EPSILON
  /\ trail[1].t_sphere = TangentT(trail[1])
  /\ trail[1].hitType = 1

\* The distance D of the ray origin of a trail record from the sphere's
\* centre.
CentreDistance(rec) == Length(VSub(rec.ro, scene.sphereCenter))

\* The ray of a trail record points at the sphere's centre.
AimedAtCentre(rec) ==
  /\ rec.ro # scene.sphereCenter
  /\ rec.rd = Normalize(VSub(scene.sphereCenter, rec.ro))

\* C8: for a ray that starts outside the sphere at distance D > r + EPSILON
\* from its centre and points at the centre, intersectSphere returns D - r
\* (to within Tol, half of EPSILON).
C8_AimedAtCentreDistance ==
  \A k \in Iterations :
    (/\ AimedAtCentre(trail[k])
     /\ CentreDistance(trail[k]) > scene.sphereRadius + EPSILON)
    => Abs(trail[k].t_sphere
           - (CentreDistance(trail[k]) - scene.sphereRadius)) <= Tol

\* C8's case: the shipped camera's ray at the sphere's centre was traced,
\* and hit the sphere at D - r.
C8_Witness ==
  /\ Len(trail) >= 1
  /\ trail[1].ro = ShippedCamera
  /\ AimedAtCentre(trail[1])
  /\ CentreDistance(trail[1]) > scene.sphereRadius + EPSILON
  /\ trail[1].t_sphere > EPSILON
  /\ trail[1].hitType = 1

\* The squared distance at which the line of a ray passes a point: |oc|^2
\* less the squared projection of oc on the direction.
PerpSq(ro, rd, point) ==
  Dot(VSub(ro, point), VSub(ro, point))
  - FDiv(FMul(Dot(VSub(ro, point), rd), Dot(VSub(ro, point), rd)), Dot(rd, rd))

\* The line of the ray of a trail record passes the sphere's centre at more
\* than the radius (by more than Tol in the squares).
MissesSphere(rec) ==
  PerpSq(rec.ro, rec.rd, scene.sphereCenter)
    > FMul(scene.sphereRadius, scene.sphereRadius) + Tol

\* C9: when the line of the ray passes the sphere's centre at a distance
\* greater than the radius, intersectSphere returns -1 and the iteration
\* does not select the sphere (hitType is not 1).
C9_MissedSphereNoHit ==
  \A k \in Iterations :
    MissesSphere(trail[k]) =>
      /\ trail[k].t_sphere = NoHit
      /\ trail[k].hitType # 1

\* C9's case: a ray of the shipped camera whose line misses the sphere was
\* traced (and hit the box instead).
C9_Witness ==
  /\ Len(trail) >= 1
  /\ trail[1].ro = ShippedCamera
  /\ MissesSphere(trail[1])
  /\ trail[1].t_sphere = NoHit
  /\ trail[1].hitType = 2

\* dot(rd, pn) for the ray of a trail record.
DenomOf(rec) == Dot(rec.rd, scene.planeNormal)

\* C10: in an iteration that tests the plane, intersectPlane returns -1
\* whenever |dot(rd, pn)| <= EPSILON, whatever the origin.
C10_ParallelPlaneNoHit ==
  \A k \in Iterations :
    (trail[k].plane_tested /\ Abs(DenomOf(trail[k])) <= EPSILON)
    => trail[k].t_plane = NoHit

\* C10's case: the plane was tested with a direction that is not orthogonal
\* to the normal but within EPSILON of it, from an origin the plane lies
\* ahead of, and was not hit.
C10_Witness ==
  /\ Len(trail) >= 1
  /\ trail[1].plane_tested
  /\ DenomOf(trail[1]) # 0
  /\ Abs(DenomOf(trail[1])) = EPSILON
  /\ FDiv(scene.planeD - Dot(trail[1].ro, scene.planeNormal),
          DenomOf(trail[1])) > EPSILON
  /\ trail[1].t_plane = NoHit
  /\ exit = "background"

\* A point lies strictly inside the box: bmin < p < bmax on every axis.
StrictlyInside(p, bmin, bmax) ==
  /\ bmin.x < p.x /\ p.x < bmax.x
  /\ bmin.y < p.y /\ p.y < bmax.y
  /\ bmin.z < p.z /\ p.z < bmax.z

InsideBox(rec) == StrictlyInside(rec.ro, scene.cubeMin, scene.cubeMax)

\* The ray origin of a trail record lies inside the sphere.
InsideSphere(rec) ==
  Dot(VSub(rec.ro, scene.sphereCenter), VSub(rec.ro, scene.sphereCenter))
    < FMul(scene.sphereRadius, scene.sphereRadius)

Enters(o, d, lo, hi) == (d = Q /\ o < lo) \/ (d = -Q /\ o > hi)

Within(o, lo, hi) == lo < o /\ o < hi

\* The ray of a trail record runs along one axis into the inside of a face.
AxisEntry(rec, bmin, bmax) ==
  \/ /\ rec.rd.y = 0 /\ rec.rd.z = 0
     /\ Enters(rec.ro.x, rec.rd.x, bmin.x, bmax.x)
     /\ Within(rec.ro.y, bmin.y, bmax.y) /\ Within(rec.ro.z, bmin.z, bmax.z)
  \/ /\ rec.rd.x = 0 /\ rec.rd.z = 0
     /\ Enters(rec.ro.y, rec.rd.y, bmin.y, bmax.y)
     /\ Within(rec.ro.x, bmin.x, bmax.x) /\ Within(rec.ro.z, bmin.z, bmax.z)
  \/ /\ rec.rd.x = 0 /\ rec.rd.y = 0
     /\ Enters(rec.ro.z, rec.rd.z, bmin.z, bmax.z)
     /\ Within(rec.ro.x, bmin.x, bmax.x) /\ Within(rec.ro.y, bmin.y, bmax.y)

\* C2: for a ray that starts outside the box and runs parallel to an axis
\* into a face, intersectAABB reports a hit and outHitNormal is the unit
\* vector of that axis pointing back at the ray origin, wherever on the
\* face the ray enters.
C2_AxisEntryNormal ==
  \A k \in Iterations :
    AxisEntry(trail[k], scene.cubeMin, scene.cubeMax) =>
      /\ trail[k].t_cube # NoHit
      /\ trail[k].cubeHitNormal = VSub(Vec3(0, 0, 0), trail[k].rd)

\* The iterations that selected the sphere, and those that selected the box.
SphereHits == {k \in Iterations : trail[k].hitType = 1}
BoxHits == {k \in Iterations : trail[k].hitType = 2}

\* The checker colour at the point where the last iteration hit the plane.
PlaneColor ==
  CheckerCol(scene, VAdd(trail[Len(trail)].ro,
                         VScale(trail[Len(trail)].rd, trail[Len(trail)].t_plane)))

\* A finished trace in the shipped scene of a ray that started outside the
\* sphere (its entry point more than EPSILON ahead), hit the sphere, did not
\* hit the box, and then reached the plane.
SphereThenPlane ==
  /\ scene = ShippedScene
  /\ pc = "done"
  /\ SphereHits # {}
  /\ BoxHits = {}
  /\ exit = "plane"
  /\ ~InsideSphere(trail[1])
  /\ T1Of(trail[1]) > EPSILON

\* weight * colour + (1 - weight) * second colour.
Mix(weight, colour, second) ==
  VAdd(VScale(colour, weight), VScale(second, Q - weight))

\* C1 as claimed: for a ray of the shipped camera that hits the sphere, not
\* the box, and then the plane, the final colour is sphereColor * 0.5
\* + (1 - 0.5) * planeCheckerColor: the sphere is blended once.
C1_Original ==
  (SphereThenPlane /\ rayOrigin = ShippedCamera) =>
    FragColor.rgb = Mix(Q \div 2, scene.sphereColorAlpha.rgb, PlaneColor)

\* C1 amended: such a ray blends the sphere once at its entry (weight 0.5)
\* and, unless the chord through the sphere is no longer than about
\* 3 * EPSILON, once more at its exit (weight 0.25): the final colour is
\* sphereColor * 0.75 + 0.25 * planeCheckerColor, and sphereColor * 0.5
\* + 0.5 * planeCheckerColor only for a tangent or grazing ray.
C1_SphereBlendedAtEntryAndExit ==
  SphereThenPlane =>
    /\ Cardinality(SphereHits) \in {1, 2}
    /\ Cardinality(SphereHits) = 2 =>
         FragColor = [rgb |-> Mix(3 * (Q \div 4), scene.sphereColorAlpha.rgb,
                                  PlaneColor),
                      a |-> Q]
    /\ Cardinality(SphereHits) = 1 =>
         /\ T2Of(trail[1]) - T1Of(trail[1]) <= 3 * EPSILON + Tol
         /\ FragColor = [rgb |-> Mix(Q \div 2, scene.sphereColorAlpha.rgb,
                                     PlaneColor),
                         a |-> Q]

\* C1's case: a ray of the shipped camera went through the sphere (entry
\* and exit), missed the box and ended on the plane.
C1_Witness ==
  /\ SphereThenPlane
  /\ rayOrigin = ShippedCamera
  /\ Len(trail) = 3
  /\ trail[1].hitType = 1
  /\ trail[2].hitType = 1
  /\ trail[3].plane_tested
  /\ trail[3].t_plane > EPSILON

\* The tangent ray of C1's amendment: one sphere hit, then the plane.
C1_GrazingReached ==
  /\ SphereThenPlane
  /\ Cardinality(SphereHits) = 1

\* The contribution transmission * litColor * alpha of the object an
\* iteration hit, for the transmission it started with.
ObjectTerm(rec, trans) ==
  VScale(VScale(rec.hitObjectColorAlpha.rgb, trans), rec.hitObjectColorAlpha.a)

\* C6: a trace blends at most three surface hits (MAX_BOUNCES) and runs at
\* most three iterations; once three hits are blended the colour is final:
\* whatever lies further along the ray, the output is the colour as it was
\* after the third blend.
C6_AtMostThreeBlends ==
  /\ Cardinality(SphereHits \cup BoxHits) <= 3
  /\ Len(trail) <= 3
  /\ Cardinality(SphereHits \cup BoxHits) = 3 =>
       /\ finalColor = VAdd(trail[3].color, ObjectTerm(trail[3], trail[3].trans))
       /\ pc = "done" => FragColor.rgb = finalColor

\* C6's case: three hits were blended, the trace is finished, and the wall
\* lies ahead of the ray's last origin.
C6_Witness ==
  /\ pc = "done"
  /\ Cardinality(SphereHits \cup BoxHits) = 3
  /\ intersectPlane(currentRayOrigin, currentRayDir,
                    scene.planeNormal, scene.planeD) > EPSILON

\* The opacity of the object iteration k hit.
AlphaOf(k) == trail[k].hitObjectColorAlpha.a

\* C7: when all three iterations end in a sphere or box hit, no iteration
\* tests the plane and the loop is left by its bound; the final colour is
\* the three object terms alone (weights a1, (1-a1)*a2, (1-a1)*(1-a2)*a3)
\* and the remaining transmission (1-a1)*(1-a2)*(1-a3) is kept in no colour.
C7_ThreeHitsNoPlane ==
  (Len(trail) = 3 /\ \A k \in 1..3 : trail[k].hitType > 0) =>
    /\ \A k \in 1..3 : ~trail[k].plane_tested
    /\ exit \in {"none", "budget"}
    /\ transmission = FMul(FMul(Q - AlphaOf(1), Q - AlphaOf(2)), Q - AlphaOf(3))
    /\ finalColor =
         VAdd(VAdd(ObjectTerm(trail[1], Q),
                   ObjectTerm(trail[2], Q - AlphaOf(1))),
              ObjectTerm(trail[3], FMul(Q - AlphaOf(1), Q - AlphaOf(2))))
    /\ pc = "done" => FragColor = [rgb |-> finalColor, a |-> Q]

\* C7's case: three hits, the loop left by its bound with more than a
\* third of the light still transmitted, and the output written.
C7_Witness ==
  /\ Len(trail) = 3
  /\ \A k \in 1..3 : trail[k].hitType > 0
  /\ exit = "budget"
  /\ pc = "done"
  /\ transmission > Q \div 3

\* The checker scales the pattern is evaluated for: the scene's, and others
\* below and above 1.
CheckerScales ==
  {scene.checkerScale, Q \div 2, Q, 2 * Q, 3 * Q}

\* The period 2 / s of the pattern for the checker scale s.
Period(s) == FDiv(2 * Q, s)

\* The board coordinates of the point where the last iteration hit the
\* plane.
BoardOf(rec) ==
  BoardCoords(scene.planeNormal, VAdd(rec.ro, VScale(rec.rd, rec.t_plane)))

\* The coordinate u, scaled by s, lies more than Tol inside its cell: the
\* rounding of 2 / s and of the products cannot move it across a cell edge.
OffEdge(u, s) ==
  /\ FMul(u, s) % Q > Tol
  /\ FMul(u, s) % Q < Q - Tol

\* An iteration hit the plane, so the pattern was computed at its point.
PatternComputed(rec) == rec.plane_tested /\ rec.t_plane > EPSILON

\* C11: the pattern mod(floor(u*s) + floor(v*s), 2) is exactly 0 or 1 and
\* has the period 2/s in each board coordinate separately, for positive and
\* negative coordinates and every checker scale s > 0 (at points that are
\* not within rounding of a cell edge); the colour the iteration adds is
\* checkerColor1 for 0 and checkerColor2 for 1.
C11_PatternPeriodic ==
  \A k \in Iterations :
    PatternComputed(trail[k]) =>
      /\ \A s \in CheckerScales :
           /\ Pattern(BoardOf(trail[k]), s) \in {0, Q}
           /\ OffEdge(BoardOf(trail[k])[1], s) =>
                /\ Pattern(<<BoardOf(trail[k])[1] + Period(s),
                             BoardOf(trail[k])[2]>>, s)
                     = Pattern(BoardOf(trail[k]), s)
                /\ Pattern(<<BoardOf(trail[k])[1] - Period(s),
                             BoardOf(trail[k])[2]>>, s)
                     = Pattern(BoardOf(trail[k]), s)
           /\ OffEdge(BoardOf(trail[k])[2], s) =>
                Pattern(<<BoardOf(trail[k])[1],
                          BoardOf(trail[k])[2] + Period(s)>>, s)
                  = Pattern(BoardOf(trail[k]), s)
      /\ finalColor =
           VAdd(trail[k].color,
                VScale(IF Pattern(BoardOf(trail[k]), scene.checkerScale) = 0
                       THEN scene.checkerColor1 ELSE scene.checkerColor2,
                       trail[k].trans))

\* C11's case: the pattern was computed at a point with a negative board
\* coordinate, off the cell edges, and came out 1.
C11_Witness ==
  /\ Len(trail) >= 1
  /\ PatternComputed(trail[Len(trail)])
  /\ BoardOf(trail[Len(trail)])[1] < 0
  /\ OffEdge(BoardOf(trail[Len(trail)])[1], scene.checkerScale)
  /\ OffEdge(BoardOf(trail[Len(trail)])[2], scene.checkerScale)
  /\ Pattern(BoardOf(trail[Len(trail)]), scene.checkerScale) = Q
  /\ pc = "done"

\* The trace as a function of its inputs alone (the ray, the scene and the
\* platform's min/max rule).  A stage is what an iteration starts from: the
\* ray origin, the transmission and the accumulated colour.
RunStart == [ro |-> rayOrigin, trans |-> Q, color |-> Vec3(0, 0, 0)]

\* The stage after an iteration that started from the stage s and hit an
\* object, c being the locals after its two object tests.
RunBlend(s, c) ==
  [ro |-> VAdd(s.ro, VScale(rayDir, c.t_hit + 2 * EPSILON)),
   trans |-> FMul(s.trans, Q - c.hitObjectColorAlpha.a),
   color |-> VAdd(s.color, VScale(VScale(c.hitObjectColorAlpha.rgb, s.trans),
                                  c.hitObjectColorAlpha.a))]

RunCandidates(s) == Candidates(scene, s.ro, rayDir, nanRule)

\* The stage the iteration k + 1 starts from, when the first k iterations
\* hit objects.
RECURSIVE Run(_)
Run(k) ==
  IF k = 0 THEN RunStart ELSE RunBlend(Run(k - 1), RunCandidates(Run(k - 1)))

\* The colour an iteration from the stage s adds when it hits no object.
RunOpaque(s, t_plane) ==
  IF t_plane > EPSILON
  THEN VScale(CheckerCol(scene, VAdd(s.ro, VScale(rayDir, t_plane))), s.trans)
  ELSE VScale(BACKGROUND, s.trans)

\* The final colour of a trace that has reached the stage s with left
\* iterations to go.
RECURSIVE RunColour(_, _)
RunFrom(s, c, left) ==
  IF c.hitType > 0
  THEN RunColour(RunBlend(s, c), left - 1)
  ELSE VAdd(s.color,
            RunOpaque(s, intersectPlane(s.ro, rayDir,
                                        scene.planeNormal, scene.planeD)))

RunColour(s, left) ==
  IF left = 0 \/ s.trans < CUTOFF
  THEN s.color
  ELSE RunFrom(s, RunCandidates(s), left)

Advance ==
  /\ pc # "done"
  /\ pc' \in {"loop", "out", "done"}
  /\ i' \in {i, i + 1}

\* The shader invocation runs to completion: the processor does not stop
\* in the middle of main.
FairSpec == Spec /\ WF_<<pc, i>>(Advance)

\* The trace is over and its output is written.
Finished ==
  /\ pc = "done"
  /\ exit \in {"cutoff", "plane", "background", "budget"}
  /\ FragColor = [rgb |-> finalColor, a |-> Q]

\* C13: a trace never runs more than three iterations (MAX_BOUNCES) and
\* always comes to its end, left in exactly one of four ways (transmission
\* cut-off, plane hit, background miss, iteration budget), with an output
\* colour written.
C13_TerminatesWithinBudget ==
  /\ [](i <= 3 /\ Len(trail) <= 3 /\ (pc = "loop" <=> exit = "none"))
  /\ <>[]Finished

\* C13's case: a trace ended by the transmission cut-off, after fewer than
\* three iterations.
C13_Witness ==
  /\ Finished
  /\ exit = "cutoff"
  /\ Len(trail) < 3

\* The step appends an iteration that hit the sphere or the box.
ObjectIteration ==
  /\ Len(trail') = Len(trail) + 1
  /\ trail'[Len(trail')].hitType > 0

\* C14: an iteration that hits the sphere or the box, with surface colour c
\* and opacity alpha, adds (transmission before the hit) * c * alpha to the
\* accumulated colour and then multiplies the transmission by (1 - alpha);
\* the colour is computed with the transmission as it was before.
C14_BlendUsesTransmissionBefore ==
  [][ObjectIteration =>
       /\ trail'[Len(trail')].hitObjectColorAlpha
            \in {scene.sphereColorAlpha, scene.cubeColorAlpha}
       /\ finalColor' =
            VAdd(finalColor,
                 VScale(VScale(trail'[Len(trail')].hitObjectColorAlpha.rgb,
                               transmission),
                        trail'[Len(trail')].hitObjectColorAlpha.a))
       /\ transmission' =
            FMul(transmission, Q - trail'[Len(trail')].hitObjectColorAlpha.a)
       /\ trail'[Len(trail')].trans = transmission
       /\ trail'[Len(trail')].color = finalColor]_vars

\* C14's case: a second object hit was blended with the transmission the
\* first one left (less than 1), after which the transmission was smaller
\* still.
C14_Witness ==
  /\ Len(trail) >= 2
  /\ trail[2].hitType > 0
  /\ trail[2].trans < Q
  /\ trail[2].trans > 0
  /\ transmission < trail[2].trans
  /\ finalColor # trail[2].color

\* A test's result counts as a hit of an iteration: it exceeds EPSILON.
Valid(t) == t > EPSILON

\* C15: every iteration tests the sphere and the box against its ray and
\* selects the valid candidate with the strictly smaller distance; when
\* both report the same distance it selects the sphere, and with no valid
\* candidate it selects nothing (hitType 0).
C15_NearerCandidateSphereOnTie ==
  \A k \in Iterations :
    /\ trail[k].t_sphere =
         intersectSphere(trail[k].ro, trail[k].rd,
                         scene.sphereCenter, scene.sphereRadius)
    /\ trail[k].t_cube =
         intersectAABB(trail[k].ro, trail[k].rd,
                       scene.cubeMin, scene.cubeMax, nanRule).t
    /\ trail[k].hitType = 1 <=>
         /\ Valid(trail[k].t_sphere)
         /\ Valid(trail[k].t_cube) => trail[k].t_sphere <= trail[k].t_cube
    /\ trail[k].hitType = 2 <=>
         /\ Valid(trail[k].t_cube)
         /\ Valid(trail[k].t_sphere) => trail[k].t_cube < trail[k].t_sphere
    /\ trail[k].hitType = 0 <=>
         ~Valid(trail[k].t_sphere) /\ ~Valid(trail[k].t_cube)
    /\ trail[k].hitType = 1 =>
         /\ trail[k].t_hit = trail[k].t_sphere
         /\ trail[k].hitObjectColorAlpha = scene.sphereColorAlpha
    /\ trail[k].hitType = 2 =>
         /\ trail[k].t_hit = trail[k].t_cube
         /\ trail[k].hitObjectColorAlpha = scene.cubeColorAlpha

\* C15's case: the sphere and the box were found at the same distance and
\* the sphere was selected.
C15_Witness ==
  /\ Len(trail) >= 1
  /\ Valid(trail[Len(trail)].t_sphere)
  /\ trail[Len(trail)].t_cube = trail[Len(trail)].t_sphere
  /\ trail[Len(trail)].hitType = 1

\* Both candidates valid, the box strictly nearer, the box selected.
C15_BoxNearerReached ==
  /\ Len(trail) >= 1
  /\ Valid(trail[Len(trail)].t_sphere)
  /\ Valid(trail[Len(trail)].t_cube)
  /\ trail[Len(trail)].t_cube < trail[Len(trail)].t_sphere
  /\ trail[Len(trail)].hitType = 2

\* The colour an iteration that tested the plane adds: the checker colour
\* at its point, or the background colour.
OpaqueTerm(rec) ==
  IF rec.t_plane > EPSILON
  THEN VScale(CheckerCol(scene, VAdd(rec.ro, VScale(rec.rd, rec.t_plane))),
              rec.trans)
  ELSE VScale(BACKGROUND, rec.trans)

\* C16: the plane is tested in exactly the iterations that hit neither the
\* sphere nor the box, and such an iteration is the last one: the loop is
\* left (by the plane hit or the background miss), its checker or background
\* term is the final contribution to the colour, the transmission stays as
\* it was, and no sphere or box blend follows; so a trace has at most one
\* such term.
C16_PlaneOnlyInLastIteration ==
  /\ \A k \in Iterations :
       /\ trail[k].plane_tested <=> trail[k].hitType = 0
       /\ trail[k].plane_tested =>
            /\ k = Len(trail)
            /\ pc \in {"out", "done"}
            /\ exit = (IF trail[k].t_plane > EPSILON
                       THEN "plane" ELSE "background")
            /\ finalColor = VAdd(trail[k].color, OpaqueTerm(trail[k]))
            /\ transmission = trail[k].trans
  /\ Cardinality({k \in Iterations : trail[k].plane_tested}) <= 1
  /\ exit \in {"plane", "background"} =>
       Len(trail) >= 1 /\ trail[Len(trail)].plane_tested

\* C16's case: two object blends, then the plane's checker term as the
\* third and last contribution.
C16_Witness ==
  /\ pc = "done"
  /\ Len(trail) = 3
  /\ trail[1].hitType > 0
  /\ trail[2].hitType > 0
  /\ trail[3].plane_tested
  /\ exit = "plane"
  /\ FragColor.rgb = VAdd(trail[3].color, OpaqueTerm(trail[3]))

\* The ray origin the iteration after the k-th started from, or would start
\* from.
OriginAfter(k) ==
  IF k < Len(trail) THEN trail[k + 1].ro ELSE currentRayOrigin

\* C17: after a sphere or box hit at distance t_hit the next ray origin is
\* the old origin + direction * (t_hit + 2 * EPSILON); every iteration uses
\* the direction of the first one, and no step of a trace changes the
\* direction or the scene's parameters.
C17_OriginAdvancesDirectionKept ==
  /\ [](/\ currentRayDir = rayDir
        /\ \A k \in Iterations :
             /\ trail[k].rd = rayDir
             /\ trail[k].hitType > 0 =>
                  OriginAfter(k) =
                    VAdd(trail[k].ro,
                         VScale(rayDir, trail[k].t_hit + 2 * EPSILON))
             /\ trail[k].hitType = 0 => OriginAfter(k) = trail[k].ro)
  /\ [][/\ scene' = scene
        /\ currentRayDir' = currentRayDir
        /\ rayDir' = rayDir
        /\ rayOrigin' = rayOrigin]_vars

\* C17's case: two hits advanced the origin twice along a direction with
\* three non-zero components.
C17_Witness ==
  /\ Len(trail) >= 2
  /\ trail[1].hitType > 0
  /\ trail[2].hitType > 0
  /\ rayDir.x # 0 /\ rayDir.y # 0 /\ rayDir.z # 0
  /\ trail[2].ro # trail[1].ro
  /\ currentRayOrigin # trail[2].ro

\* The point the k-th iteration hit.
HitPoint(k) == VAdd(trail[k].ro, VScale(trail[k].rd, trail[k].t_hit))

\* The k-th iteration's sphere hit was the entry root t1 (with the exit
\* root t2 further on).
EntryHit(k) ==
  /\ trail[k].t_sphere = T1Of(trail[k])
  /\ T1Of(trail[k]) < T2Of(trail[k])

\* The root of the next iteration's quadratic at which the k-th iteration
\* hit the sphere.
PrevRoot(k) ==
  IF EntryHit(k) THEN T1Of(trail[k + 1]) ELSE T2Of(trail[k + 1])

\* C18: the surface point blended in an iteration is not reported again by
\* the next one: it lies 2 * EPSILON behind the new origin, its root of the
\* sphere's quadratic is negative, so that after a sphere entry hit the next
\* sphere result is the exit root or no hit, after a sphere exit hit it is
\* no hit, and after a box hit the next box result is no hit.
C18_HitPointNotReportedAgain ==
  \A k \in Iterations :
    (k < Len(trail) /\ trail[k].hitType > 0) =>
      /\ Abs(Dot(VSub(HitPoint(k), trail[k + 1].ro), rayDir) + 2 * EPSILON)
           <= Tol
      /\ trail[k].hitType = 1 =>
           /\ DiscOf(trail[k + 1]) >= 0 => PrevRoot(k) < 0
           /\ trail[k + 1].t_sphere \in {NoHit, T2Of(trail[k + 1])}
           /\ trail[k + 1].t_sphere # NoHit =>
                EntryHit(k) /\ T1Of(trail[k + 1]) < 0
           /\ ~EntryHit(k) => trail[k + 1].t_sphere = NoHit
      /\ trail[k].hitType = 2 => trail[k + 1].t_cube = NoHit

\* C18's case: a sphere entry hit followed by the exit root, followed by a
\* box hit, all along one ray.
C18_Witness ==
  /\ Len(trail) = 3
  /\ trail[1].hitType = 1 /\ EntryHit(1)
  /\ trail[2].hitType = 1 /\ trail[2].t_sphere = T2Of(trail[2])
  /\ trail[3].hitType = 2
  /\ trail[3].t_sphere = NoHit

\* A box entry hit followed by an iteration that did not find the box.
C18_AfterBoxReached ==
  /\ Len(trail) >= 2
  /\ trail[1].hitType = 2
  /\ trail[2].t_cube = NoHit

\* The two slab distances of the ray of a trail record on each axis.
SlabsOf(rec) ==
  { <<SlabT(scene.cubeMin.x - rec.ro.x, InvDir(rec.rd.x)),
      SlabT(scene.cubeMax.x - rec.ro.x, InvDir(rec.rd.x))>>,
    <<SlabT(scene.cubeMin.y - rec.ro.y, InvDir(rec.rd.y)),
      SlabT(scene.cubeMax.y - rec.ro.y, InvDir(rec.rd.y))>>,
    <<SlabT(scene.cubeMin.z - rec.ro.z, InvDir(rec.rd.z)),
      SlabT(scene.cubeMax.z - rec.ro.z, InvDir(rec.rd.z))>> }

NoNaN(rec) == \A p \in SlabsOf(rec) : p[1] # NaN /\ p[2] # NaN

SetMin(S) == CHOOSE m \in S : \A x \in S : m <= x
SetMax(S) == CHOOSE m \in S : \A x \in S : x <= m

\* tNear and tFar as the claim defines them: the largest of the per-axis
\* smaller distances and the smallest of the per-axis larger ones.
NearOf(rec) == SetMax({SetMin({p[1], p[2]}) : p \in SlabsOf(rec)})
FarOf(rec) == SetMin({SetMax({p[1], p[2]}) : p \in SlabsOf(rec)})

\* tNear and tFar as intersectAABB computes them for a trail record.
TNearOf(rec) == AABBNear(rec.ro, rec.rd, scene.cubeMin, scene.cubeMax, nanRule)
TFarOf(rec) == AABBFar(rec.ro, rec.rd, scene.cubeMin, scene.cubeMax, nanRule)

\* The three conditions of a box hit.
BoxHitConditions(tNear, tFar) ==
  Lt(tNear, tFar) /\ Lt(EPSILON, tFar) /\ Lt(EPSILON, tNear)

\* C19: intersectAABB reports a hit exactly when tNear < tFar, tFar >
\* EPSILON and tNear > EPSILON, tNear being the maximum over the axes of the
\* smaller slab distance and tFar the minimum of the larger; it returns
\* tNear for a hit and -1 in every other case.
C19_BoxHitIffSlabsOverlapAhead ==
  \A k \in Iterations :
    /\ NoNaN(trail[k]) =>
         /\ TNearOf(trail[k]) = NearOf(trail[k])
         /\ TFarOf(trail[k]) = FarOf(trail[k])
    /\ trail[k].t_cube # NoHit <=>
         BoxHitConditions(TNearOf(trail[k]), TFarOf(trail[k]))
    /\ trail[k].t_cube # NoHit => trail[k].t_cube = TNearOf(trail[k])
    /\ trail[k].t_cube \in {NoHit, TNearOf(trail[k])}

\* C19's case: a ray whose slab intervals do not overlap (tNear > tFar)
\* although the box lies ahead on every axis, and no hit.
C19_Witness ==
  /\ Len(trail) >= 1
  /\ NoNaN(trail[1])
  /\ NearOf(trail[1]) > EPSILON
  /\ FarOf(trail[1]) > EPSILON
  /\ FarOf(trail[1]) < NearOf(trail[1])
  /\ NearOf(trail[1]) < Inf
  /\ trail[1].t_cube = NoHit

\* A box hit reported at tNear, between EPSILON and tFar.
C19_HitReached ==
  /\ Len(trail) >= 1
  /\ NoNaN(trail[1])
  /\ trail[1].t_cube = NearOf(trail[1])
  /\ EPSILON < trail[1].t_cube
  /\ trail[1].t_cube < FarOf(trail[1])

\* pd - dot(ro, pn) for the ray of a trail record.
NumerOf(rec) == scene.planeD - Dot(rec.ro, scene.planeNormal)

\* The plane lies behind the origin of the ray, or the origin on the plane.
PlaneBehind(rec) ==
  \/ NumerOf(rec) = 0
  \/ NumerOf(rec) > 0 /\ DenomOf(rec) < 0
  \/ NumerOf(rec) < 0 /\ DenomOf(rec) > 0

\* C20: when |dot(rd, pn)| > EPSILON, intersectPlane returns
\* t = (pd - dot(ro, pn)) / dot(rd, pn) if t exceeds EPSILON and -1
\* otherwise; the point ro + t * rd of a returned t lies on the plane
\* (dot with pn equal to pd, to within rounding), and a plane behind the
\* origin is not reported.
C20_PlaneDistance ==
  \A k \in Iterations :
    (trail[k].plane_tested /\ Abs(DenomOf(trail[k])) > EPSILON) =>
      /\ trail[k].t_plane =
           (IF FDiv(NumerOf(trail[k]), DenomOf(trail[k])) > EPSILON
            THEN FDiv(NumerOf(trail[k]), DenomOf(trail[k]))
            ELSE NoHit)
      /\ trail[k].t_plane # NoHit =>
           /\ trail[k].t_plane > EPSILON
           /\ Abs(Dot(VAdd(trail[k].ro, VScale(trail[k].rd, trail[k].t_plane)),
                      scene.planeNormal) - scene.planeD) <= Tol
      /\ PlaneBehind(trail[k]) => trail[k].t_plane = NoHit

\* C20's case: a plane hit along a direction oblique to the normal.
C20_Witness ==
  /\ Len(trail) >= 1
  /\ trail[Len(trail)].plane_tested
  /\ Abs(DenomOf(trail[Len(trail)])) > EPSILON
  /\ Abs(DenomOf(trail[Len(trail)])) < Q \div 2
  /\ trail[Len(trail)].t_plane > Q
  /\ exit = "plane"

\* A plane behind the origin, facing the ray's line, and not reported.
C20_BehindReached ==
  /\ Len(trail) >= 1
  /\ trail[Len(trail)].plane_tested
  /\ Abs(DenomOf(trail[Len(trail)])) > EPSILON
  /\ NumerOf(trail[Len(trail)]) # 0
  /\ PlaneBehind(trail[Len(trail)])
  /\ exit = "background"


\* The point where iteration k hit the plane.
PlaneHitPoint(k) == VAdd(trail[k].ro, VScale(trail[k].rd, trail[k].t_plane))

\* The two coordinates of the point p on the board of a plane with normal
\* pn, as C21 names them.
BoardU(pn, p) ==
  IF Abs(pn.z) > 99 * (Q \div 100) THEN p.x
  ELSE IF Abs(pn.y) > 99 * (Q \div 100) THEN p.x
  ELSE p.y

BoardV(pn, p) ==
  IF Abs(pn.z) > 99 * (Q \div 100) THEN p.y
  ELSE p.z

\* The number of the tile that holds the board coordinate u, for the scene's
\* checker scale, and the sum of the two tile numbers of iteration k's point.
TileOf(u) == FMul(u, scene.checkerScale) \div Q

TileSum(k) ==
  TileOf(BoardU(scene.planeNormal, PlaneHitPoint(k)))
  + TileOf(BoardV(scene.planeNormal, PlaneHitPoint(k)))

\* The checker colour of a tile sum.
TileColour(sum) ==
  IF sum % 2 = 0 THEN scene.checkerColor1 ELSE scene.checkerColor2

\* C21: on a plane hit the board coordinates are the hit point's (x,y) when
\* |planeNormal.z| > 0.99, else (x,z) when |planeNormal.y| > 0.99, else
\* (y,z); the colour added is transmission * checkerColor1 when the tile sum
\* is even (pattern below 0.5) and transmission * checkerColor2 otherwise;
\* the four tiles that share an edge with the point's tile (one tile width
\* 1/checkerScale away, for a point off the tile's edges) have the other
\* parity and, the two checker colours being different, the other colour.
C21_BoardCoordsAndTileColour ==
  \A k \in Iterations :
    PatternComputed(trail[k]) =>
      /\ BoardOf(trail[k]) = <<BoardU(scene.planeNormal, PlaneHitPoint(k)),
                               BoardV(scene.planeNormal, PlaneHitPoint(k))>>
      /\ (Pattern(BoardOf(trail[k]), scene.checkerScale) < Q \div 2)
           <=> (TileSum(k) % 2 = 0)
      /\ finalColor = VAdd(trail[k].color,
                           VScale(TileColour(TileSum(k)), trail[k].trans))
      /\ \A d \in {-1, 1} :
           /\ TileColour(TileSum(k) + d) # TileColour(TileSum(k))
           /\ OffEdge(BoardOf(trail[k])[1], scene.checkerScale) =>
                Pattern(<<BoardOf(trail[k])[1]
                            + d * FDiv(Q, scene.checkerScale),
                          BoardOf(trail[k])[2]>>, scene.checkerScale)
                  = Q - Pattern(BoardOf(trail[k]), scene.checkerScale)
           /\ OffEdge(BoardOf(trail[k])[2], scene.checkerScale) =>
                Pattern(<<BoardOf(trail[k])[1],
                          BoardOf(trail[k])[2]
                            + d * FDiv(Q, scene.checkerScale)>>,
                        scene.checkerScale)
                  = Q - Pattern(BoardOf(trail[k]), scene.checkerScale)

\* C21's case: the plane was hit on a tile of odd sum, off the tile's edges,
\* after an object hit, so the second checker colour was added with a
\* transmission below 1.
C21_Witness ==
  /\ pc = "done"
  /\ exit = "plane"
  /\ Len(trail) >= 2
  /\ TileSum(Len(trail)) % 2 = 1
  /\ OffEdge(BoardOf(trail[Len(trail)])[1], scene.checkerScale)
  /\ OffEdge(BoardOf(trail[Len(trail)])[2], scene.checkerScale)
  /\ trail[Len(trail)].trans < Q
  /\ trail[Len(trail)].trans >= CUTOFF

\* A plane with its normal along y (board coordinates x and z) was hit on a
\* tile of odd sum.
C21_XZBoardReached ==
  /\ pc = "done"
  /\ exit = "plane"
  /\ Abs(scene.planeNormal.y) > 99 * (Q \div 100)
  /\ TileSum(Len(trail)) % 2 = 1

\* A plane with its normal along x (board coordinates y and z) was hit on a
\* tile of even sum.
C21_YZBoardReached ==
  /\ pc = "done"
  /\ exit = "plane"
  /\ Abs(scene.planeNormal.x) > 99 * (Q \div 100)
  /\ TileSum(Len(trail)) % 2 = 0

\* Iteration k hit neither the sphere, the box nor the plane.
MissedAll(k) ==
  /\ ~Valid(trail[k].t_sphere)
  /\ ~Valid(trail[k].t_cube)
  /\ trail[k].plane_tested
  /\ ~(trail[k].t_plane > EPSILON)

\* The colour (0.1, 0.1, 0.15).
DimBackground == Vec3(Q \div 10, Q \div 10, 3 * (Q \div 20))

\* C22: an iteration that hits neither sphere, box nor plane adds exactly
\* transmission * (0.1, 0.1, 0.15) to the accumulated colour and ends the
\* loop (and the loop is left as "background" in this case only); a ray
\* that misses all three in the first iteration yields exactly the colour
\* (0.1, 0.1, 0.15).
C22_BackgroundOnMiss ==
  /\ \A k \in Iterations :
       MissedAll(k) =>
         /\ k = Len(trail)
         /\ pc \in {"out", "done"}
         /\ exit = "background"
         /\ transmission = trail[k].trans
         /\ finalColor = VAdd(trail[k].color,
                              VScale(DimBackground, trail[k].trans))
         /\ k = 1 => finalColor = DimBackground
         /\ pc = "done" => FragColor = [rgb |-> finalColor, a |-> Q]
  /\ exit = "background" => Len(trail) >= 1 /\ MissedAll(Len(trail))

\* C22's case: the first iteration missed all three primitives and the
\* output is written.
C22_Witness ==
  /\ pc = "done"
  /\ Len(trail) = 1
  /\ MissedAll(1)
  /\ FragColor.rgb = DimBackground

\* A miss of all three after two object hits: the background is weighted by
\* a transmission below 1.
C22_AfterHitsReached ==
  /\ pc = "done"
  /\ Len(trail) = 3
  /\ MissedAll(3)
  /\ trail[3].trans < Q
  /\ trail[3].trans >= CUTOFF

\* An iteration is about to start: the loop condition holds.
AtIterationStart == pc = "loop" /\ i < MAX_BOUNCES

\* Iteration k blended a surface with an opacity above 0.99.
OpaqueHit(k) == trail[k].hitType > 0 /\ AlphaOf(k) > 99 * (Q \div 100)

\* C23: an iteration that starts with transmission < 0.01 performs no
\* intersection test and adds nothing (it leaves the loop); with
\* transmission >= 0.01 it always proceeds to the intersection tests.  So
\* after a hit on a surface with alpha > 0.99 no later object, nor the
\* plane, nor the background contributes: that hit's term is the last.
C23_TransmissionCutOff ==
  /\ [][(AtIterationStart /\ transmission < Q \div 100) =>
          /\ pc' = "out"
          /\ exit' = "cutoff"
          /\ trail' = trail
          /\ finalColor' = finalColor
          /\ transmission' = transmission]_vars
  /\ [][(AtIterationStart /\ transmission >= Q \div 100) =>
          /\ Len(trail') = Len(trail) + 1
          /\ trail'[Len(trail')].ro = currentRayOrigin
          /\ trail'[Len(trail')].t_sphere =
               intersectSphere(currentRayOrigin, currentRayDir,
                               scene.sphereCenter, scene.sphereRadius)
          /\ exit' # "cutoff"]_vars
  /\ [](\A k \in Iterations :
          OpaqueHit(k) =>
            /\ k = Len(trail)
            /\ transmission < Q \div 100
            /\ exit \in {"none", "cutoff", "budget"}
            /\ finalColor = VAdd(trail[k].color,
                                 ObjectTerm(trail[k], trail[k].trans))
            /\ pc = "done" => FragColor.rgb = finalColor)
  /\ [](exit = "cutoff" => transmission < Q \div 100)

\* C23's case: the first hit was on an opaque sphere, the loop was left by
\* the cut-off with two iterations of the budget unused, and the box lies
\* ahead of the ray.
C23_Witness ==
  /\ pc = "done"
  /\ exit = "cutoff"
  /\ Len(trail) = 1
  /\ OpaqueHit(1)
  /\ trail[1].hitType = 1
  /\ Valid(intersectAABB(currentRayOrigin, currentRayDir,
                         scene.cubeMin, scene.cubeMax, nanRule).t)

\* An iteration started with a transmission of 0.02 and went on to a second
\* hit, after which the loop was cut off.
C23_LowTransmissionProceeds ==
  /\ exit = "cutoff"
  /\ Len(trail) = 2
  /\ trail[2].trans = Q \div 50
  /\ trail[2].hitType > 0
  /\ transmission > 0

\* The cut-off with the plane ahead of the ray.
C23_PlaneAheadReached ==
  /\ pc = "done"
  /\ exit = "cutoff"
  /\ Valid(intersectPlane(currentRayOrigin, currentRayDir,
                          scene.planeNormal, scene.planeD))

\* The sphere's and the box's opacities are in [0, 1].
OpacitiesInRange ==
  /\ scene.sphereColorAlpha.a \in 0..Q
  /\ scene.cubeColorAlpha.a \in 0..Q

\* C24: for sphere and box opacities in [0,1], transmission is 1 before the
\* first iteration, stays within [0,1] in every state of the trace, and
\* never increases: no step raises it, and every iteration starts with at
\* most the transmission the one before started with.
C24_TransmissionBounded ==
  /\ [](OpacitiesInRange =>
          /\ transmission \in 0..Q
          /\ trail = <<>> => transmission = Q
          /\ \A k \in Iterations :
               /\ trail[k].trans \in 0..Q
               /\ k = 1 => trail[k].trans = Q
               /\ k > 1 => trail[k].trans <= trail[k - 1].trans
               /\ k = Len(trail) => transmission <= trail[k].trans)
  /\ [][OpacitiesInRange => transmission' <= transmission]_vars

\* C24's case: three iterations ran, each starting with less transmission
\* than the one before, and some is left.
C24_Witness ==
  /\ OpacitiesInRange
  /\ Len(trail) = 3
  /\ trail[1].trans = Q
  /\ trail[2].trans < trail[1].trans
  /\ trail[3].trans < trail[2].trans
  /\ transmission < trail[3].trans
  /\ transmission > 0

\* The ray of the trace crosses the sphere from outside: its origin is
\* outside, the entry point lies ahead of it, and the line meets the sphere
\* in two points.
CrossesSphere ==
  /\ Len(trail) >= 1
  /\ ~InsideSphere(trail[1])
  /\ DiscOf(trail[1]) > 0
  /\ T1Of(trail[1]) > EPSILON

\* The opacity of the sphere, and what two blends of it leave.
SphereAlpha == scene.sphereColorAlpha.a
SphereLeaves == FMul(Q - SphereAlpha, Q - SphereAlpha)

C25_BoxThenSphereReached ==
  /\ BoxHits = {1}
  /\ SphereHits = {2, 3}

\* The weight iteration k gave its colour: transmission * alpha for an
\* object, and the whole transmission for the plane or the background.
Weight(k) ==
  IF trail[k].hitType > 0 THEN FMul(trail[k].trans, AlphaOf(k))
  ELSE trail[k].trans

\* The sum of the weights of the iterations before the k-th.
RECURSIVE WeightsBefore(_)
WeightsBefore(k) ==
  IF k <= 1 THEN 0 ELSE WeightsBefore(k - 1) + Weight(k - 1)

\* The colour iteration k blended or added, and the term it contributed.
ColourOf(k) ==
  IF trail[k].hitType > 0 THEN trail[k].hitObjectColorAlpha.rgb
  ELSE IF trail[k].t_plane > EPSILON THEN CheckerCol(scene, PlaneHitPoint(k))
  ELSE BACKGROUND

TermOf(k) ==
  VSub(IF k < Len(trail) THEN trail[k + 1].color ELSE finalColor,
       trail[k].color)

\* x and y differ by at most n units of the arithmetic's resolution.
Near(x, y, n) == Abs(x - y) <= n

Unit(v) == v.x \in 0..Q /\ v.y \in 0..Q /\ v.z \in 0..Q

\* Every input colour component is in [0, 1].
ColoursInRange ==
  /\ Unit(scene.sphereColorAlpha.rgb)
  /\ Unit(scene.cubeColorAlpha.rgb)
  /\ Unit(scene.checkerColor1)
  /\ Unit(scene.checkerColor2)

\* C26: at the start of every iteration the weights applied so far plus the
\* transmission make 1 (to the arithmetic's rounding, one unit per blend),
\* each iteration's term is its colour times its weight, and a trace that
\* ends on the plane or the background has weights that sum to 1; so with
\* every input colour component in [0,1] every component of the final
\* colour is in [0,1], however the loop is left.
C26_WeightsConserved ==
  /\ \A k \in Iterations :
       /\ Near(WeightsBefore(k) + trail[k].trans, Q, k - 1)
       /\ Near(TermOf(k).x, FMul(ColourOf(k).x, Weight(k)), 1)
       /\ Near(TermOf(k).y, FMul(ColourOf(k).y, Weight(k)), 1)
       /\ Near(TermOf(k).z, FMul(ColourOf(k).z, Weight(k)), 1)
  /\ exit \in {"none", "cutoff", "budget"} =>
       Near(WeightsBefore(Len(trail) + 1) + transmission, Q, Len(trail))
  /\ exit \in {"plane", "background"} =>
       Near(WeightsBefore(Len(trail) + 1), Q, Len(trail) - 1)
  /\ ColoursInRange =>
       /\ Unit(finalColor)
       /\ pc = "done" => Unit(FragColor.rgb) /\ FragColor.a = Q

\* C26's case: two blends and a tile of the plane, the three weights making
\* 1.
C26_Witness ==
  /\ pc = "done"
  /\ exit = "plane"
  /\ Len(trail) = 3
  /\ Weight(1) + Weight(2) + Weight(3) = Q
  /\ Weight(2) > 0
  /\ Weight(3) > 0
  /\ Unit(FragColor.rgb)

\* A white surface and a white tile behind it: the colour's components
\* reach 1.
C26_WhiteReached ==
  /\ pc = "done"
  /\ Len(trail) >= 2
  /\ FragColor.rgb = Vec3(Q, Q, Q)

\* The loop left by its bound with weights that sum to less than 1.
C26_BudgetReached ==
  /\ pc = "done"
  /\ exit = "budget"
  /\ WeightsBefore(4) < Q - 1000
  /\ WeightsBefore(4) + transmission = Q

\* The distance at which the ray of iteration k would meet the plane.
PlaneAlong(k) ==
  intersectPlane(trail[k].ro, trail[k].rd, scene.planeNormal, scene.planeD)

\* Iteration k hit an object although the plane lies nearer on its ray.
PlaneInFront(k) ==
  /\ trail[k].hitType > 0
  /\ Valid(PlaneAlong(k))
  /\ PlaneAlong(k) < trail[k].t_hit

\* C27: the plane does not occlude the sphere or the box.  The plane is
\* consulted only in an iteration whose object tests both miss, so an
\* object hit is blended even when the plane would be met at a smaller
\* distance on the same ray; the origin is then advanced past the plane, no
\* later iteration finds the plane, and one that hits no object adds the
\* background colour.
C27_PlaneDoesNotOcclude ==
  \A k \in Iterations :
    /\ trail[k].plane_tested =>
         ~Valid(trail[k].t_sphere) /\ ~Valid(trail[k].t_cube)
    /\ PlaneInFront(k) =>
         /\ ~trail[k].plane_tested
         /\ TermOf(k) = ObjectTerm(trail[k], trail[k].trans)
         /\ ~Valid(intersectPlane(OriginAfter(k), trail[k].rd,
                                  scene.planeNormal, scene.planeD))
         /\ \A j \in Iterations :
              j > k =>
                /\ ~Valid(PlaneAlong(j))
                /\ trail[j].plane_tested =>
                     /\ exit = "background"
                     /\ TermOf(j) = VScale(BACKGROUND, trail[j].trans)
         /\ exit # "plane"

\* C27's case: the sphere was hit twice from behind the plane, which lay
\* nearer on the ray, and the third iteration added the background.
C27_Witness ==
  /\ pc = "done"
  /\ Len(trail) = 3
  /\ PlaneInFront(1)
  /\ trail[1].hitType = 1
  /\ trail[2].hitType = 1
  /\ trail[3].plane_tested
  /\ exit = "background"
  /\ FragColor.rgb = VAdd(trail[3].color, VScale(BACKGROUND, trail[3].trans))

\* The box hit with the plane nearer on the ray.
C27_BoxBehindPlaneReached ==
  /\ Len(trail) >= 1
  /\ PlaneInFront(1)
  /\ trail[1].hitType = 2

\* The six unit vectors along the axes.
AxisNormals ==
  { Vec3(Q, 0, 0), Vec3(-Q, 0, 0), Vec3(0, Q, 0), Vec3(0, -Q, 0),
    Vec3(0, 0, Q), Vec3(0, 0, -Q) }

\* The box has min < max on every axis.
BoxProper ==
  /\ scene.cubeMin.x < scene.cubeMax.x
  /\ scene.cubeMin.y < scene.cubeMax.y
  /\ scene.cubeMin.z < scene.cubeMax.z

\* The box hit point of a trail record, relative to the box's centre.
LocalOf(rec) ==
  LocalHitPoint(rec.ro, rec.rd, scene.cubeMin, scene.cubeMax, rec.t_cube)

\* The number of pairs of equal absolute coordinates of v.
EqualPairs(v) ==
  (IF Abs(v.x) = Abs(v.y) THEN 1 ELSE 0)
  + (IF Abs(v.x) = Abs(v.z) THEN 1 ELSE 0)
  + (IF Abs(v.y) = Abs(v.z) THEN 1 ELSE 0)

\* C28: whenever intersectAABB reports a hit on a box with min < max on
\* every axis, outHitNormal has exactly one non-zero component and that
\* component is +1 or -1, also when two or three absolute local coordinates
\* of the hit point are equal; the component is one of largest absolute
\* local coordinate and has that coordinate's sign.
C28_NormalIsSignedAxis ==
  \A k \in Iterations :
    (BoxProper /\ trail[k].t_cube # NoHit) =>
      /\ trail[k].cubeHitNormal \in AxisNormals
      /\ Dot(trail[k].cubeHitNormal, LocalOf(trail[k]))
           = SetMax({Abs(LocalOf(trail[k]).x), Abs(LocalOf(trail[k]).y),
                     Abs(LocalOf(trail[k]).z)})
      /\ trail[k].hitType = 2 => trail[k].hitNormal = trail[k].cubeHitNormal

\* C28's case: a box hit at a point whose absolute local coordinates are
\* not all different.
C28_Witness ==
  /\ Len(trail) >= 1
  /\ trail[Len(trail)].t_cube # NoHit
  /\ EqualPairs(LocalOf(trail[Len(trail)])) >= 1
  /\ trail[Len(trail)].cubeHitNormal \in AxisNormals

\* A box hit at a point whose three absolute local coordinates are equal.
C28_CornerReached ==
  /\ Len(trail) >= 1
  /\ trail[Len(trail)].t_cube # NoHit
  /\ EqualPairs(LocalOf(trail[Len(trail)])) = 3

-----------------------------------------------------------------------------
(***************************************************************************)
(* Task 4: what createShaderProgram leaves behind when it fails.           *)
(***************************************************************************)

\* The call has returned after a compilation or the linking failed.  Linking
\* is attempted only when both shaders compiled.
ShaderFailure ==
  /\ shaderPc = "returned"
  /\ \/ ~vertexCompiles
     \/ ~fragmentCompiles
     \/ ~programLinks

\* The objects the call created that the context still holds.
StillAllocated == created \cap (glShaders \cup glPrograms)

\* C30: createShaderProgram returns 0 whenever a shader fails to compile or
\* the linking fails, and on every such path every shader and program object
\* it created has been deleted before it returns.
C30_FailureLeavesNothing ==
  ShaderFailure => shaderProgram = 0 /\ StillAllocated = {}

\* The part of C30 that holds: every failure returns 0.
C30_FailureReturnsZero == ShaderFailure => shaderProgram = 0

\* The part of C30 that holds: a failed link leaves nothing behind.
C30_LinkFailureLeavesNothing ==
  shaderPc = "returned" /\ vertexCompiles /\ fragmentCompiles /\ ~programLinks
    => StillAllocated = {}

\* The part of C30 that holds: two failed compilations leave nothing behind.
C30_BothFailLeaveNothing ==
  shaderPc = "returned" /\ ~vertexCompiles /\ ~fragmentCompiles
    => StillAllocated = {}

\* One shader compiled, the other did not, and line 505 returned 0 with the
\* compiled shader still allocated.
C30_LeakReached ==
  /\ shaderPc = "returned"
  /\ shaderProgram = 0
  /\ vertexCompiles # fragmentCompiles
  /\ Cardinality(StillAllocated) = 1
  /\ StillAllocated \subseteq glShaders

-----------------------------------------------------------------------------
(***************************************************************************)
(* Task 1: the life of a window in the render loop.                        *)
(***************************************************************************)

\* A window whose close flag was observed is not rendered in that pass: it
\* is still in the map only during the pass that observed it.
ObservedNotRendered ==
  \A w \in windows : shouldClose[w] => w \notin rendered

\* At the test of the while every observed window is gone, destroyed once,
\* and none of its objects is left; no window is destroyed twice.
ObservedDestroyedOnce ==
  /\ \A w \in AllWindows : destroyed[w] <= 1
  /\ windowPc = "while" =>
       \A w \in AllWindows :
         shouldClose[w] => w \notin windows /\ destroyed[w] = 1 /\ ctx[w] = {}

\* A window that is rendered draws with its own four objects.
OthersKeepTheirData ==
  \A w \in rendered : drawn[w] = Objects

\* glfwTerminate is reached only with every window destroyed.
ExitOnlyWhenAllDestroyed ==
  windowPc = "glfwTerminate" =>
    windows = {} /\ \A w \in AllWindows : destroyed[w] = 1

\* C29: in the three-window render loop a window whose close flag is
\* observed is not rendered in that or any later pass, is destroyed with its
\* VAO/VBO/EBO/program in the clean-up of the same pass and exactly once, the
\* other windows keep rendering with their own unchanged data, and the loop
\* exits exactly when all windows have been destroyed.
C29_WindowLifecycle ==
  /\ ObservedNotRendered
  /\ ObservedDestroyedOnce
  /\ OthersKeepTheirData
  /\ ExitOnlyWhenAllDestroyed

\* The parts of C29 that hold.
C29_LifecycleOfTheClosedWindow ==
  /\ ObservedNotRendered
  /\ ObservedDestroyedOnce
  /\ ExitOnlyWhenAllDestroyed

\* The part of C29 that holds: an observed window is never drawn again, and
\* with an empty map the loop is left.
C29_NoLaterRender ==
  [][/\ \A w \in AllWindows : shouldClose[w] => drawn'[w] = drawn[w]
     /\ windowPc = "while" /\ windows = {} => windowPc' = "glfwTerminate"]_vars

\* With contexts that number their objects differently the deletes name
\* nothing in the current context, and the open windows keep their data.
C29_DistinctNamesKeepData == ~sameNames => OthersKeepTheirData

\* An open window, not asked to close, has drawn without its VAO, VBO and
\* EBO after the clean-up of another window deleted them.
C29_OtherWindowBroken ==
  \E w \in windows :
    /\ ~shouldClose[w]
    /\ w \in rendered
    /\ drawn[w] = {"program"}
    /\ w \in flagged
    /\ \E v \in AllWindows : v # w /\ destroyed[v] = 1

\* The clean-up reached a closing window with no current context and the
\* process ended inside the loop.
C29_CrashReached ==
  /\ windowPc = "crashed"
  /\ current = 0
  /\ windows # {}
=============================================================================
